---- MODULE Spec2Model ----
(***************************************************************************)
(* Model of eu5/generate_tables.py (class TableGenerator): the country     *)
(* rank heuristic infer_country_rank_key and the note derivation           *)
(* get_country_notes of _generate_countries_by_region_tables.              *)
(*                                                                         *)
(* Python values are modelled as follows.                                  *)
(*   object with optional attributes : a function whose DOMAIN is the set  *)
(*                                     of attributes the object has        *)
(*   dict                            : a function; {} is <<>>              *)
(*   list / tuple of objects         : [type |-> "list" | "tuple",         *)
(*                                      items |-> sequence]                *)
(*   str                             : a string; an f-string is the        *)
(*                                     concatenation of its pieces         *)
(*   None                            : the string "None"                   *)
(* A note is the sequence of the pieces of the f-string that builds it, so *)
(* that a property can tell the literal text from the interpolated values. *)
(***************************************************************************)
EXTENDS Integers, Sequences, FiniteSets, TLC

(* ------------------------------ bounds -------------------------------- *)

\* the largest number of provinces one ownership list adds on its own
MaxOwn == 3
\* the largest number of attributes of one country that hold a non-list
MaxNonList == 1
\* the largest number of organizations listed for one country in io_members
MaxIoLen == 2

VARIABLES
    country,    \* the country object handed to the two functions
    parser,     \* self.parser: formable_countries, diplomacy_relationships
    pc,         \* "start", or the function that has run
    provinces,  \* the local set `provinces` of infer_country_rank_key at its end
    rank_key,   \* the value infer_country_rank_key returned ("unset" before)
    notes,      \* the notes list get_country_notes returned
    raised,     \* the exception the function propagated, "none" if none
    arg,        \* the building, policy or other entity a formatter is given
    collection, \* the parser collection a table function iterates over
    returned    \* what a formatter or table function returned

vars == <<country, parser, pc, provinces, rank_key, notes, raised,
          arg, collection, returned>>

(* --------------------------- Python helpers --------------------------- *)

None == "None"

hasattr(obj, attr) == attr \in DOMAIN obj

isinstance_list(value) == value.type = "list"

len(value) == Len(value.items)

\* dict.get(key, default)
Get(d, key, default) == IF key \in DOMAIN d THEN d[key] ELSE default

\* str.lower() on the strings of the model that hold an upper-case letter
lower(s) ==
    CASE s = "PAPACY" -> "papacy"
      [] s = "Shaivism" -> "shaivism"
      [] s = "Vaishnavism" -> "vaishnavism"
      [] s = "Trimurti" -> "trimurti"
      [] s = "Smartism Branch" -> "smartism branch"
      [] s = "County" -> "county"
      [] s = "Duchy" -> "duchy"
      [] s = "Kingdom" -> "kingdom"
      [] s = "Empire" -> "empire"
      [] s = "Khanate" -> "khanate"
      [] s = "Africa" -> "africa"
      [] s = "Europe" -> "europe"
      [] OTHER -> s

\* str.capitalize(): first character upper-cased, the rest lower-cased
capitalize(s) ==
    CASE s = "subject" -> "Subject"
      [] s = "tributary_State" -> "Tributary_state"
      [] s = "vassal" -> "Vassal"
      [] s = "pop" -> "Pop"
      [] s = "building" -> "Building"
      [] OTHER -> s

\* branch_key.replace('_', ' ').title()
replace_title(s) ==
    CASE s = "smartism_branch" -> "Smartism Branch"
      [] s = "shaivism_branch" -> "Shaivism Branch"
      [] s = "vaishnavism_law" -> "Vaishnavism Law"
      [] s = "shared_key" -> "Shared Key"
      [] OTHER -> s

(* ------------------------ infer_country_rank_key ----------------------- *)

candidates ==
    << "own_control_core", "own_core", "control",
       "own_conquered", "own_control_conquered", "own_control_integrated",
       "own_control_colony" >>

\* try: prov = loc.province / except Exception: prov = None
province_of(loc) == IF hasattr(loc, "province") THEN loc.province ELSE None

\* provinces_of_attr without the isinstance(value, list) test
provinces_of_attr_any_sequence(c, attr) ==
    IF hasattr(c.attrs, attr)
    THEN LET value == c.attrs[attr]
         IN { province_of(value.items[i]) : i \in 1..len(value) } \ {None}
    ELSE {}

\* the provinces one candidate attribute adds to the set
provinces_of_attr(c, attr) ==
    IF hasattr(c.attrs, attr)
    THEN LET value == c.attrs[attr]
         IN IF isinstance_list(value) /\ len(value) > 0
            THEN { province_of(value.items[i]) : i \in 1..len(value) } \ {None}
            ELSE {}
    ELSE {}

collect_provinces(c) ==
    UNION { provinces_of_attr(c, candidates[i]) : i \in 1..Len(candidates) }

\* rank_for_count with the last threshold tested by < instead of <=
rank_for_count_strict(n) ==
    IF n <= 0 THEN "rank_county"
    ELSE IF n <= 2 THEN "rank_county"
    ELSE IF n <= 5 THEN "rank_duchy"
    ELSE IF n < 12 THEN "rank_kingdom"
    ELSE "rank_empire"

rank_for_count(n) ==
    IF n <= 0 THEN "rank_county"
    ELSE IF n <= 2 THEN "rank_county"
    ELSE IF n <= 5 THEN "rank_duchy"
    ELSE IF n <= 12 THEN "rank_kingdom"
    ELSE "rank_empire"

infer_country_rank_key(c) == rank_for_count(Cardinality(collect_provinces(c)))

(* ------------------- the parser's entity collections ------------------- *)

\* self.parser.countries: tag -> country entity
parser_countries ==
    [ tag \in {"BRT", "FRA", "ENG"} |-> [name |-> tag, display_name |-> tag] ]

\* self.parser.subject_types: key -> subject type entity
parser_subject_types ==
    [ key \in {"vassal", "fiefdom"} |-> [name |-> key, display_name |-> key] ]

\* self.parser.international_organizations: key -> organization entity
parser_international_organizations ==
    [ key \in {"hindu_branch", "catholic_church", "papacy"} |->
        [name |-> key, display_name |-> key] ]

\* self.parser.law_policies: key -> law policy entity
parser_law_policies ==
    ("shaivism_branch" :> [display_name |-> "Shaivism"]) @@
    ("shared_key" :> [display_name |-> "Trimurti"])

\* self.parser.laws: key -> law entity
parser_laws ==
    ("vaishnavism_law" :> [display_name |-> "Vaishnavism"]) @@
    ("shared_key" :> [display_name |-> "shared law"])

\* entity.get_wiki_link_with_icon(): the entity's own markup; what matters
\* here is that it is made from the entity and differs from every raw key
get_wiki_link_with_icon(entity) ==
    "{{link with icon|" \o entity.display_name \o "}}"

(* --------------------------- get_country_notes ------------------------- *)

existence_note == << "Does not exist in 1337" >>

formable_note ==
    << "[[File:Country rank.png|24px|link=Formable countries]] [[Formable countries|Formable Country]]" >>

is_formable(c, p) ==
    \E fc \in DOMAIN p.formable_countries :
        p.formable_countries[fc].country_name = c.name

has_conquered_cores(c) ==
    hasattr(c.attrs, "our_cores_conquered_by_others")
        /\ len(c.attrs["our_cores_conquered_by_others"]) > 0

owns(c, attr) == hasattr(c.attrs, attr) /\ len(c.attrs[attr]) > 0

\* has_owned_cores without the test of the control attribute
has_owned_cores_without_control(c) ==
    \/ owns(c, "own_control_core")
    \/ owns(c, "own_core")
    \/ owns(c, "own_conquered")
    \/ owns(c, "own_control_conquered")
    \/ owns(c, "own_control_integrated")
    \/ owns(c, "own_control_colony")

has_owned_cores(c) ==
    \/ owns(c, "own_control_core")
    \/ owns(c, "own_core")
    \/ owns(c, "own_conquered")
    \/ owns(c, "own_control_conquered")
    \/ owns(c, "own_control_integrated")
    \/ owns(c, "own_control_colony")
    \/ owns(c, "control")

existence_notes(c) ==
    IF has_conquered_cores(c) /\ ~has_owned_cores(c)
    THEN << existence_note >>
    ELSE << >>

\* subject_display that shows an undeclared key as it is written
subject_display_raw_key(subject_type) ==
    IF subject_type \in DOMAIN parser_subject_types
    THEN get_wiki_link_with_icon(parser_subject_types[subject_type])
    ELSE subject_type

subject_display(subject_type) ==
    IF subject_type \in DOMAIN parser_subject_types
    THEN get_wiki_link_with_icon(parser_subject_types[subject_type])
    ELSE capitalize(subject_type)

overlord_flag(overlord_tag) ==
    IF overlord_tag \in DOMAIN parser_countries
    THEN get_wiki_link_with_icon(parser_countries[overlord_tag])
    ELSE "{{flag|" \o overlord_tag \o "}}"

\* the body of "if country.name in diplo_rels['overlords']", both tables at hand
subject_notes(c, diplo_rels) ==
    IF c.name \in DOMAIN diplo_rels["overlords"]
    THEN LET overlord_tag == diplo_rels["overlords"][c.name]
             subject_type == Get(diplo_rels["subject_types"], c.name, "subject")
         IN << << subject_display(subject_type), " of ", overlord_flag(overlord_tag) >> >>
    ELSE << >>

\* excluded_io that compares the name as it is written
excluded_io_case_sensitive(io_name) == io_name \in {"catholic_church", "papacy"}

excluded_io(io_name) == lower(io_name) \in {"catholic_church", "papacy"}

\* branch_display that looks the key up in laws before law_policies
branch_display_law_first(c, io_name, io_member_laws) ==
    LET branch_laws == Get(Get(io_member_laws, c.name, << >>), io_name, << >>)
    IN IF Len(branch_laws) > 0
       THEN LET branch_key == branch_laws[1]
            IN IF branch_key \in DOMAIN parser_laws
               THEN parser_laws[branch_key].display_name
               ELSE IF branch_key \in DOMAIN parser_law_policies
               THEN parser_law_policies[branch_key].display_name
               ELSE replace_title(branch_key)
       ELSE None

\* branch_display of the Hindu Branch special case; None when no law is listed
branch_display(c, io_name, io_member_laws) ==
    LET branch_laws == Get(Get(io_member_laws, c.name, << >>), io_name, << >>)
    IN IF Len(branch_laws) > 0
       THEN LET branch_key == branch_laws[1]
            IN IF branch_key \in DOMAIN parser_law_policies
               THEN parser_law_policies[branch_key].display_name
               ELSE IF branch_key \in DOMAIN parser_laws
               THEN parser_laws[branch_key].display_name
               ELSE replace_title(branch_key)
       ELSE None

\* the note of the Hindu Branch special case
branch_note(display) ==
    << "Member of [[File:IO ", lower(display),
       ".png|24px]] [[International organization#Hindu Branches|", display, "]]" >>

\* member_notes that appends nothing for an organization that is not in
\* international_organizations
member_notes_skip_unknown(c, io_name, io_member_laws) ==
    IF excluded_io(io_name) THEN << >>
    ELSE IF io_name \in DOMAIN parser_international_organizations
    THEN LET display == IF lower(io_name) = "hindu_branch"
                        THEN branch_display(c, io_name, io_member_laws)
                        ELSE None
         IN IF display # None /\ display # ""
            THEN << branch_note(display) >>
            ELSE << << "Member of ",
                       get_wiki_link_with_icon(parser_international_organizations[io_name]) >> >>
    ELSE << >>

\* what one pass of "for io_name in io_names" appends
member_notes(c, io_name, io_member_laws) ==
    IF excluded_io(io_name) THEN << >>
    ELSE IF io_name \in DOMAIN parser_international_organizations
    THEN LET display == IF lower(io_name) = "hindu_branch"
                        THEN branch_display(c, io_name, io_member_laws)
                        ELSE None
         IN IF display # None /\ display # ""
            THEN << branch_note(display) >>
            ELSE << << "Member of ",
                       get_wiki_link_with_icon(parser_international_organizations[io_name]) >> >>
    ELSE << << "Member of {{iconify|", io_name, "}}" >> >>

RECURSIVE membership_notes(_, _, _)
membership_notes(c, io_names, io_member_laws) ==
    IF io_names = << >> THEN << >>
    ELSE member_notes(c, Head(io_names), io_member_laws)
            \o membership_notes(c, Tail(io_names), io_member_laws)

\* formable_notes that appends the note once for each matching definition
formable_notes_per_definition(c, p) ==
    LET matching == { fc \in DOMAIN p.formable_countries :
                        p.formable_countries[fc].country_name = c.name }
    IN [ i \in 1..Cardinality(matching) |-> formable_note ]

formable_notes(c, p) == IF is_formable(c, p) THEN << formable_note >> ELSE << >>

\* ordered_notes with the formable note appended where is_formable is computed
ordered_notes_formable_first(existence, subject, membership, formable) ==
    formable \o existence \o subject \o membership

\* the order of the notes.append calls
ordered_notes(existence, subject, membership, formable) ==
    existence \o subject \o membership \o formable

Returned(result) == [raised |-> "none", notes |-> result]

Raised(exception) == [raised |-> exception, notes |-> << >>]

\* the whole function: the returned notes, or the exception that leaves it
get_country_notes(c, p) ==
    IF ~hasattr(p, "diplomacy_relationships")
    THEN Returned(ordered_notes(existence_notes(c), << >>, << >>,
                                formable_notes(c, p)))
    ELSE LET diplo_rels == p.diplomacy_relationships
             io_member_laws == Get(diplo_rels, "io_member_laws", << >>)
         IN IF "overlords" \notin DOMAIN diplo_rels
            THEN Raised("KeyError: overlords")
            ELSE IF c.name \in DOMAIN diplo_rels["overlords"]
                    /\ "subject_types" \notin DOMAIN diplo_rels
            THEN Raised("KeyError: subject_types")
            ELSE IF "io_members" \notin DOMAIN diplo_rels
            THEN Raised("KeyError: io_members")
            ELSE Returned(ordered_notes(
                    existence_notes(c),
                    subject_notes(c, diplo_rels),
                    membership_notes(c,
                        Get(diplo_rels["io_members"], c.name, << >>),
                        io_member_laws),
                    formable_notes(c, p)))

(* ------------------------------- inputs -------------------------------- *)

ownership_attrs == { candidates[i] : i \in 1..Len(candidates) }

all_attrs == ownership_attrs \cup {"our_cores_conquered_by_others"}

index_of(attr) == CHOOSE i \in 1..Len(candidates) : candidates[i] = attr

\* a Location object in a province, in no province, or without the attribute
location(loc_name, prov) == [name |-> loc_name, province |-> prov]

\* The Location objects the parser puts in ownership list number i:
\*   1 + (i-1) % MaxOwn locations in provinces of their own,
\*   a second location in the first of these provinces,
\*   for even i a location in a province every even list shares,
\*   a location whose province is None and one that has no province.
owned_locations(i) ==
    LET tag == ToString(i)
    IN [ j \in 1..(1 + ((i - 1) % MaxOwn)) |->
            location("loc_" \o tag \o "_" \o ToString(j),
                     "prov_" \o tag \o "_" \o ToString(j)) ]
       \o << location("loc_" \o tag \o "_1b", "prov_" \o tag \o "_1") >>
       \o (IF i % 2 = 0
           THEN << location("loc_" \o tag \o "_s", "prov_shared") >>
           ELSE << >>)
       \o << location("loc_" \o tag \o "_n", None),
             [name |-> "loc_" \o tag \o "_x"] >>

lost_locations == << location("loc_lost", "prov_lost") >>

locations_of(attr) ==
    IF attr \in ownership_attrs THEN owned_locations(index_of(attr))
    ELSE lost_locations

attr_value(attr, kind) ==
    CASE kind = "empty" -> [type |-> "list", items |-> << >>]
      [] kind = "list"  -> [type |-> "list", items |-> locations_of(attr)]
      [] kind = "tuple" -> [type |-> "tuple", items |-> locations_of(attr)]

\* a country: each attribute absent, an empty list, a list of locations or
\* (for at most MaxNonList attributes) a tuple of locations
country_of(kinds) ==
    [ name |-> "BRT",
      attrs |-> [ a \in { b \in all_attrs : kinds[b] # "absent" } |->
                    attr_value(a, kinds[a]) ] ]

CountryKinds ==
    { k \in [all_attrs -> {"absent", "empty", "list", "tuple"}] :
        Cardinality({ a \in all_attrs : k[a] = "tuple" }) <= MaxNonList }

\* a country without territory whose cores are lost, and one that owns cores
SampleCountries ==
    { country_of([a \in all_attrs |->
                    IF a = "our_cores_conquered_by_others" THEN "list" ELSE "empty"]),
      country_of([a \in all_attrs |->
                    IF a \in {"our_cores_conquered_by_others", "own_core"}
                    THEN "list" ELSE "empty"]) }

table(t) == [present |-> TRUE, dict |-> t]

missing_table == [present |-> FALSE, dict |-> << >>]

OverlordTables ==
    { missing_table, table(<< >>), table("BRT" :> "FRA"), table("BRT" :> "ZZZ") }

SubjectTypeTables ==
    { missing_table, table(<< >>), table("BRT" :> "vassal"),
      table("BRT" :> "tributary_State") }

IoNames == {"catholic_church", "PAPACY", "hindu_branch", "ghost_league"}

IoLists == UNION { [1..n -> IoNames] : n \in 0..MaxIoLen }

IoMemberTables ==
    { missing_table, table(<< >>) } \cup { table("BRT" :> l) : l \in IoLists }

LawLists ==
    { << >>, << "shaivism_branch" >>, << "vaishnavism_law" >>,
      << "smartism_branch" >>, << "shared_key" >>,
      << "vaishnavism_law", "shaivism_branch" >> }

IoMemberLawTables ==
    { missing_table, table("BRT" :> << >>) }
        \cup { table("BRT" :> ("hindu_branch" :> l)) : l \in LawLists }

\* self.parser.diplomacy_relationships with the tables that are present
diplomacy_relationships(o, s, m, l) ==
    LET tables == ("overlords" :> o) @@ ("subject_types" :> s)
                    @@ ("io_members" :> m) @@ ("io_member_laws" :> l)
    IN [ k \in { t \in DOMAIN tables : tables[t].present } |-> tables[k].dict ]

FormableCountries ==
    { ("form_fra" :> [country_name |-> "FRA"]),
      ("form_fra" :> [country_name |-> "FRA"])
        @@ ("form_brt" :> [country_name |-> "BRT"])
        @@ ("form_britain" :> [country_name |-> "BRT"]) }

parser_without_relationships(f) == [formable_countries |-> f]

parser_with_relationships(f, o, s, m, l) ==
    [formable_countries |-> f,
     diplomacy_relationships |-> diplomacy_relationships(o, s, m, l)]

(* ---------------------------- state machine --------------------------- *)

\* Every country is taken with a parser that has no relationship data, and
\* every parser with the two sample countries.
Init ==
    /\ \/ \E kinds \in CountryKinds, f \in FormableCountries :
            /\ country = country_of(kinds)
            /\ parser = parser_without_relationships(f)
       \/ \E c \in SampleCountries, f \in FormableCountries,
             o \in OverlordTables, s \in SubjectTypeTables,
             m \in IoMemberTables, l \in IoMemberLawTables :
            /\ country = c
            /\ parser = parser_with_relationships(f, o, s, m, l)
    /\ pc = "start"
    /\ provinces = {}
    /\ rank_key = "unset"
    /\ notes = << >>
    /\ raised = "none"
    /\ arg = None
    /\ collection = << >>
    /\ returned = None

InferCountryRankKey ==
    /\ pc = "start"
    /\ provinces' = collect_provinces(country)
    /\ rank_key' = infer_country_rank_key(country)
    /\ pc' = "infer_country_rank_key"
    /\ UNCHANGED <<country, parser, notes, raised>>
    /\ UNCHANGED <<arg, collection, returned>>

GetCountryNotes ==
    /\ pc = "start"
    /\ LET result == get_country_notes(country, parser)
       IN /\ notes' = result.notes
          /\ raised' = result.raised
    /\ pc' = "get_country_notes"
    /\ UNCHANGED <<country, parser, provinces, rank_key>>
    /\ UNCHANGED <<arg, collection, returned>>

Next == InferCountryRankKey \/ GetCountryNotes

Spec == Init /\ [][Next]_vars

(* ------------------------------ properties ---------------------------- *)

Range(seq) == { seq[i] : i \in 1..Len(seq) }

RankInferred == pc = "infer_country_rank_key"

ListedLocations ==
    UNION { Range(country.attrs[a].items) :
              a \in { b \in { "own_control_core", "own_core", "control",
                              "own_conquered", "own_control_conquered",
                              "own_control_integrated", "own_control_colony" }
                          \cap DOMAIN country.attrs :
                        country.attrs[b].type = "list" } }

\* C2: the provinces counted are exactly the provinces of the locations held
\* in the seven ownership attributes that are lists: each province once,
\* however many locations or attributes lead to it; absent, non-list and
\* empty attributes and locations without a province add nothing.
C2_UnionOfProvinces ==
    RankInferred =>
        provinces = { l.province :
                        l \in { m \in ListedLocations :
                                  "province" \in DOMAIN m /\ m.province # None } }

\* own_core and own_conquered are lists that share a province, which is
\* counted once; another attribute is a tuple, one is absent, one is empty
C2_Witness ==
    /\ RankInferred
    /\ "prov_shared" \in provinces
    /\ \E a, b \in DOMAIN country.attrs :
          /\ a # b
          /\ country.attrs[a].type = "list" /\ country.attrs[b].type = "list"
          /\ \E i \in 1..len(country.attrs[a]), j \in 1..len(country.attrs[b]) :
                /\ "province" \in DOMAIN country.attrs[a].items[i]
                /\ "province" \in DOMAIN country.attrs[b].items[j]
                /\ country.attrs[a].items[i].province = "prov_shared"
                /\ country.attrs[b].items[j].province = "prov_shared"
    /\ \E a \in DOMAIN country.attrs :
          a # "our_cores_conquered_by_others" /\ country.attrs[a].type = "tuple"
    /\ \E a \in DOMAIN country.attrs : len(country.attrs[a]) = 0
    /\ "control" \notin DOMAIN country.attrs
    /\ Cardinality(provinces) < Cardinality(ListedLocations)

(* ---------------- the notes, read from their text -------------------- *)

\* get_country_notes has returned its notes (it raised nothing)
NotesReturned == pc = "get_country_notes" /\ raised = "none"

IsExistenceNote(n) == n = << "Does not exist in 1337" >>

IsSubjectNote(n) == Len(n) = 3 /\ n[2] = " of "

IsMemberNote(n) ==
    n[1] \in {"Member of ", "Member of {{iconify|", "Member of [[File:IO "}

IsBranchNote(n) == Len(n) = 5 /\ n[1] = "Member of [[File:IO "

IsFormableNote(n) == n = formable_note

ExistencePositions == { i \in 1..Len(notes) : IsExistenceNote(notes[i]) }

SubjectPositions == { i \in 1..Len(notes) : IsSubjectNote(notes[i]) }

MemberPositions == { i \in 1..Len(notes) : IsMemberNote(notes[i]) }

FormablePositions == { i \in 1..Len(notes) : IsFormableNote(notes[i]) }

\* the membership notes, in the order they have in notes
MemberNotes == SelectSeq(notes, IsMemberNote)

\* 1 existence, 2 subject, 3 membership, 4 formable
Stage(n) ==
    IF IsExistenceNote(n) THEN 1
    ELSE IF IsSubjectNote(n) THEN 2
    ELSE IF IsMemberNote(n) THEN 3
    ELSE 4

(* ---------------- the relationship data, read from the parser --------- *)

HasRelationships == "diplomacy_relationships" \in DOMAIN parser

HasTable(t) ==
    HasRelationships /\ t \in DOMAIN parser.diplomacy_relationships

SomeTableMissing ==
    HasRelationships
        /\ \E t \in {"overlords", "subject_types", "io_members", "io_member_laws"} :
              ~HasTable(t)

\* the country is a subject: the overlords table lists it
IsSubject ==
    HasTable("overlords")
        /\ country.name \in DOMAIN parser.diplomacy_relationships["overlords"]

OverlordTag == parser.diplomacy_relationships["overlords"][country.name]

\* the organizations io_members lists for the country, in their order
ListedOrganizations ==
    IF HasTable("io_members")
          /\ country.name \in DOMAIN parser.diplomacy_relationships["io_members"]
    THEN parser.diplomacy_relationships["io_members"][country.name]
    ELSE << >>

IsCatholic(io_name) ==
    lower(io_name) = "catholic_church" \/ lower(io_name) = "papacy"

IsNotCatholic(io_name) == ~IsCatholic(io_name)

\* the listed organizations that are not the two Catholic ones
NotedOrganizations == SelectSeq(ListedOrganizations, IsNotCatholic)

\* the laws io_member_laws lists for the country and the organization
ListedLaws(io_name) ==
    IF HasTable("io_member_laws")
          /\ country.name \in DOMAIN parser.diplomacy_relationships["io_member_laws"]
          /\ io_name \in DOMAIN parser.diplomacy_relationships["io_member_laws"][country.name]
    THEN parser.diplomacy_relationships["io_member_laws"][country.name][io_name]
    ELSE << >>

\* the note n is about the organization written io_name
NoteNames(n, io_name) ==
    \/ n = << "Member of {{iconify|", io_name, "}}" >>
    \/ /\ io_name \in DOMAIN parser_international_organizations
       /\ n = << "Member of ",
                 get_wiki_link_with_icon(parser_international_organizations[io_name]) >>
    \/ /\ io_name = "hindu_branch"
       /\ IsBranchNote(n)

IsFormableCountry ==
    \E fc \in DOMAIN parser.formable_countries :
        parser.formable_countries[fc].country_name = country.name

\* the cores of the country are lost and it holds nothing
LostEverything ==
    /\ "our_cores_conquered_by_others" \in DOMAIN country.attrs
    /\ Len(country.attrs["our_cores_conquered_by_others"].items) > 0
    /\ \A a \in { "own_control_core", "own_core", "control", "own_conquered",
                  "own_control_conquered", "own_control_integrated",
                  "own_control_colony" } :
          \/ a \notin DOMAIN country.attrs
          \/ Len(country.attrs[a].items) = 0

(* ------------------------------ C3 .. C10 ----------------------------- *)

\* C3: the notes get_country_notes returns are in the fixed order existence
\* note, subject note, membership notes, formable note; the existence note is
\* the first element, the formable note the last, and the membership notes
\* follow the order in which io_members lists the organizations.
C3_NotesInFixedOrder ==
    NotesReturned =>
        /\ \A i, j \in 1..Len(notes) : i < j => Stage(notes[i]) <= Stage(notes[j])
        /\ \A i \in ExistencePositions : i = 1
        /\ \A i \in FormablePositions : i = Len(notes)
        /\ Len(MemberNotes) = Len(NotedOrganizations)
        /\ \A k \in 1..Len(MemberNotes) :
              NoteNames(MemberNotes[k], NotedOrganizations[k])

\* all four kinds of note at once, with two different organizations
C3_Witness ==
    /\ NotesReturned
    /\ Len(notes) = 5
    /\ IsExistenceNote(notes[1])
    /\ IsSubjectNote(notes[2])
    /\ IsMemberNote(notes[3]) /\ IsMemberNote(notes[4]) /\ notes[3] # notes[4]
    /\ IsFormableNote(notes[5])

\* C4: the 'Does not exist in 1337' note is among the returned notes if and
\* only if our_cores_conquered_by_others is present and non-empty and each of
\* the seven ownership attributes is absent or empty.
C4_ExistenceNoteIffLostEverything ==
    NotesReturned => ((ExistencePositions # {}) <=> LostEverything)

\* the note is emitted for a country with absent and with empty attributes
C4_Witness ==
    /\ NotesReturned
    /\ ExistencePositions = {1}
    /\ "control" \notin DOMAIN country.attrs
    /\ "own_core" \in DOMAIN country.attrs

\* C5: with relationship data that lacks one of its tables the function
\* does not abort but returns the notes that need no table.
C5_MissingTableDoesNotAbort ==
    (pc = "get_country_notes" /\ SomeTableMissing) =>
        /\ raised = "none"
        /\ (ExistencePositions # {}) <=> LostEverything
        /\ (FormablePositions # {}) <=> IsFormableCountry

\* an overlord tag, an organization or a branch law key that names no entity
UnknownOverlord == IsSubject /\ OverlordTag \notin DOMAIN parser_countries

UnknownOrganization(io_name) ==
    io_name \notin DOMAIN parser_international_organizations

UnknownBranchLaw ==
    /\ Len(ListedLaws("hindu_branch")) > 0
    /\ ListedLaws("hindu_branch")[1] \notin DOMAIN parser_law_policies
    /\ ListedLaws("hindu_branch")[1] \notin DOMAIN parser_laws

\* the number of notes when none is left out
ExpectedNumberOfNotes ==
    (IF LostEverything THEN 1 ELSE 0) + (IF IsSubject THEN 1 ELSE 0)
        + Len(NotedOrganizations) + (IF IsFormableCountry THEN 1 ELSE 0)

C7_OneNotePerOrganizationButCatholic ==
    NotesReturned =>
        /\ Cardinality(MemberPositions) =
              Cardinality({ k \in 1..Len(ListedOrganizations) :
                              ~IsCatholic(ListedOrganizations[k]) })
        /\ \A k \in 1..Len(ListedOrganizations) :
              IsCatholic(ListedOrganizations[k]) =>
                  \A i \in MemberPositions :
                      ~NoteNames(notes[i], ListedOrganizations[k])

\* a Catholic organization in upper case listed beside another organization
C7_Witness ==
    /\ NotesReturned
    /\ ListedOrganizations = << "PAPACY", "ghost_league" >>
    /\ Cardinality(MemberPositions) = 1

\* the display name the first listed law key resolves to
ResolvesTo(branch_key, display) ==
    /\ branch_key \in DOMAIN parser_law_policies =>
          display = parser_law_policies[branch_key].display_name
    /\ (branch_key \notin DOMAIN parser_law_policies
          /\ branch_key \in DOMAIN parser_laws) =>
          display = parser_laws[branch_key].display_name
    /\ (branch_key \notin DOMAIN parser_law_policies
          /\ branch_key \notin DOMAIN parser_laws) =>
          display = replace_title(branch_key)

\* C8: the note of a member of hindu_branch shows the name the first law
\* listed for the country resolves to (law policy, else law, else the
\* title-cased key); with no law listed it is the organization's own link;
\* either way there is exactly one note for each listing.
C8_HinduBranchShowsItsLaw ==
    NotesReturned =>
        /\ Len(MemberNotes) = Len(NotedOrganizations)
        /\ \A k \in 1..Len(NotedOrganizations) :
              NotedOrganizations[k] = "hindu_branch" =>
                  IF Len(ListedLaws("hindu_branch")) > 0
                  THEN /\ IsBranchNote(MemberNotes[k])
                       /\ ResolvesTo(ListedLaws("hindu_branch")[1], MemberNotes[k][4])
                       /\ MemberNotes[k][2] = lower(MemberNotes[k][4])
                  ELSE MemberNotes[k] =
                          << "Member of ",
                             get_wiki_link_with_icon(
                                 parser_international_organizations["hindu_branch"]) >>

\* the first law key is a law policy and a law: the policy's name is shown
C8_Witness ==
    /\ NotesReturned
    /\ ListedOrganizations = << "hindu_branch" >>
    /\ ListedLaws("hindu_branch") = << "shared_key" >>
    /\ Len(MemberNotes) = 1
    /\ MemberNotes[1][4] = "Trimurti"

\* C9: the formable-country note is returned if and only if a formable
\* country definition has the tag of the country as country_name; it is
\* returned once at most and as the last note, with or without relationship
\* data.
C9_FormableNoteLastAndOnce ==
    NotesReturned =>
        /\ (FormablePositions # {}) <=> IsFormableCountry
        /\ Cardinality(FormablePositions) <= 1
        /\ \A i \in FormablePositions : i = Len(notes)

\* two definitions form the country, the parser has no relationship data
C9_Witness ==
    /\ NotesReturned
    /\ ~HasRelationships
    /\ Cardinality({ fc \in DOMAIN parser.formable_countries :
                       parser.formable_countries[fc].country_name = country.name }) = 2
    /\ Len(notes) = 2
    /\ IsFormableNote(notes[2])

\* the subject type of the country: its entry in subject_types, else 'subject'
SubjectTypeKey ==
    IF country.name \in DOMAIN parser.diplomacy_relationships["subject_types"]
    THEN parser.diplomacy_relationships["subject_types"][country.name]
    ELSE "subject"

\* C10: a country listed in the overlords table gets exactly one note
\* '<subject display> of <overlord>': the display is the link of the subject
\* type when the type (the entry of the country, else 'subject') is declared
\* and the capitalized key otherwise; the overlord is the link of the country
\* with that tag when there is one and the flag template of the tag
\* otherwise. A country that is not listed gets no such note.
C10_SubjectNote ==
    NotesReturned =>
        IF IsSubject
        THEN /\ Cardinality(SubjectPositions) = 1
             /\ \A i \in SubjectPositions :
                   /\ notes[i][1] =
                         IF SubjectTypeKey \in DOMAIN parser_subject_types
                         THEN get_wiki_link_with_icon(parser_subject_types[SubjectTypeKey])
                         ELSE capitalize(SubjectTypeKey)
                   /\ notes[i][3] =
                         IF OverlordTag \in DOMAIN parser_countries
                         THEN get_wiki_link_with_icon(parser_countries[OverlordTag])
                         ELSE "{{flag|" \o OverlordTag \o "}}"
        ELSE SubjectPositions = {}

\* a subject without an entry in subject_types under a known overlord
C10_Witness ==
    /\ NotesReturned
    /\ IsSubject
    /\ country.name \notin DOMAIN parser.diplomacy_relationships["subject_types"]
    /\ \E i \in SubjectPositions :
          /\ notes[i][1] = "Subject"
          /\ notes[i][3] = get_wiki_link_with_icon(parser_countries["FRA"])

(* =========================== format_government ======================== *)

\* self.parser.government_types: key -> government type entity
parser_government_types == ("monarchy" :> [display_name |-> "Monarchy"])

\* self.parser.game_concepts: key -> game concept
parser_game_concepts == ("pop" :> [display_name |-> "Society of Pops"])

\* self.parser.country_ranks: key -> rank entity
parser_country_ranks ==
    ("rank_county" :> [display_name |-> "County", link_target |-> "County"])
    @@ ("rank_duchy" :> [display_name |-> "Duchy", link_target |-> "Duchy"])
    @@ ("rank_kingdom" :> [display_name |-> "Kingdom", link_target |-> "Kingdom"])
    @@ ("rank_empire" :> [display_name |-> "Empire", link_target |-> "Empire"])

\* the localisation strings of the game that the keys of the model have
localization ==
    ("steppe_horde" :> "[steppe_horde_name]") @@ ("rank_khanate" :> "Khanate")

\* self.parser.localize(key, default=...)
localize(key, default) == Get(localization, key, default)

\* self.formatter.resolve_nested_localizations(text): a bracketed key inside
\* the text is replaced by its own localisation
resolve_nested_localizations(text) ==
    CASE text = "[steppe_horde_name]" -> "Steppe Horde"
      [] OTHER -> text

\* bool(value) of a str or None
truthy_str(value) == value # None /\ value # ""

\* bool(value) of a dict
truthy_dict(value) == DOMAIN value # {}

_icon_link_from_text(text) == << "{{icon|", text, "}} [[", text, "]]" >>

\* the lines format_government appends for the government type
government_type_parts(c) ==
    IF /\ hasattr(c.attrs, "government")
       /\ truthy_dict(c.attrs.government)
       /\ "type" \in DOMAIN c.attrs.government
    THEN LET gov_type == c.attrs.government["type"]
         IN IF gov_type \in DOMAIN parser_government_types
            THEN << << "* ", get_wiki_link_with_icon(parser_government_types[gov_type]) >> >>
            ELSE << << "* " >> \o _icon_link_from_text(
                        resolve_nested_localizations(localize(gov_type, gov_type))) >>
    ELSE << >>

country_type_line(file_name, display, link_target) ==
    << "* [[File:", file_name, ".png|24px|", display, "|link=", link_target,
       "]] [[", link_target, "|", display, "]]" >>

\* the lines format_government appends for the country type
country_type_parts(c) ==
    IF /\ hasattr(c.attrs, "setup_data")
       /\ truthy_dict(c.attrs.setup_data)
       /\ "type" \in DOMAIN c.attrs.setup_data
    THEN LET country_type_key == c.attrs.setup_data["type"]
             file_name == "Country " \o lower(country_type_key)
         IN IF country_type_key # "location"
            THEN IF country_type_key \in DOMAIN parser_game_concepts
                 THEN << country_type_line(file_name,
                            parser_game_concepts[country_type_key].display_name,
                            "Country#Country_type") >>
                 ELSE << country_type_line(file_name,
                            resolve_nested_localizations(
                                localize(country_type_key, capitalize(country_type_key))),
                            "Country#Country_type") >>
            ELSE << >>
    ELSE << >>

\* does format_government take the rank from country.country_rank?
has_country_rank(c) ==
    hasattr(c.attrs, "country_rank") /\ truthy_str(c.attrs.country_rank)

\* the rank key with the inferred rank taken first, the explicit one last
government_rank_key_inferred_first(c) ==
    IF infer_country_rank_key(c) # None THEN infer_country_rank_key(c)
    ELSE c.attrs.country_rank

\* rank_key = country.country_rank if ... else self.infer_country_rank_key(country)
government_rank_key(c) ==
    IF has_country_rank(c) THEN c.attrs.country_rank
    ELSE infer_country_rank_key(c)

\* the line format_government appends for the rank key
country_rank_parts(key) ==
    IF truthy_str(key)
    THEN IF key \in DOMAIN parser_country_ranks
         THEN LET rank_obj == parser_country_ranks[key]
                  display == rank_obj.display_name
                  link_target == rank_obj.link_target
              IN << << "* [[File:", "Rank " \o lower(display), ".png|24px|", display,
                       "|link=", link_target, "]] [[", link_target, "|", display, "]]" >> >>
         ELSE LET rank_display == resolve_nested_localizations(localize(key, key))
              IN << << "* [[File:", "Rank " \o lower(rank_display), ".png|24px|",
                       rank_display, "|link=", "Country rank", "#", rank_display,
                       "]] [[", "Country rank", "#", rank_display, "|",
                       rank_display, "]]" >> >>
    ELSE << >>

\* format_government(country): parts holds the lines of the cell, which is
\* '\n' and the lines joined by '\n', or '' without a line; calls holds the
\* methods of self that the function called
format_government(c) ==
    [ parts |-> government_type_parts(c) \o country_type_parts(c)
                    \o country_rank_parts(government_rank_key(c)),
      rank_key |-> government_rank_key(c),
      calls |-> IF has_country_rank(c) THEN << >>
                ELSE << "infer_country_rank_key" >> ]

(* ------------------------------- inputs -------------------------------- *)

\* a country that holds the first n ownership lists
country_with_lists(n) ==
    country_of([ a \in all_attrs |->
                   IF a \in ownership_attrs /\ index_of(a) <= n THEN "list"
                   ELSE "absent" ])

\* an attribute the object has, with its value, or one it does not have
present(value) == [has |-> TRUE, value |-> value]

absent == [has |-> FALSE]

Governments ==
    { absent, present(<< >>), present("type" :> "monarchy"),
      present("type" :> "steppe_horde"), present("heir_selection" :> "eldest") }

SetupData ==
    { absent, present(<< >>), present("type" :> "location"),
      present("type" :> "pop"), present("type" :> "building") }

CountryRanks ==
    { absent, present(None), present(""), present("rank_county"),
      present("rank_duchy"), present("rank_empire"), present("rank_khanate"),
      present("rank_horde") }

with_attr(c, attr, option) ==
    IF option.has THEN [c EXCEPT !.attrs = (attr :> option.value) @@ c.attrs]
    ELSE c

government_country(n, g, d, r) ==
    with_attr(with_attr(with_attr(country_with_lists(n),
        "country_rank", r), "government", g), "setup_data", d)

(* ---------------------------- state machine --------------------------- *)

InitGovernment ==
    /\ \E n \in 0..Len(candidates), g \in Governments, d \in SetupData,
          r \in CountryRanks :
            country = government_country(n, g, d, r)
    /\ parser = [country_ranks |-> parser_country_ranks,
                 government_types |-> parser_government_types,
                 game_concepts |-> parser_game_concepts]
    /\ pc = "start"
    /\ provinces = {}
    /\ rank_key = "unset"
    /\ notes = << >>
    /\ raised = "none"
    /\ arg = None
    /\ collection = << >>
    /\ returned = None

FormatGovernment ==
    /\ pc = "start"
    /\ LET result == format_government(country)
       IN /\ rank_key' = result.rank_key
          /\ returned' = [parts |-> result.parts, calls |-> result.calls]
    /\ pc' = "format_government"
    /\ UNCHANGED <<country, parser, provinces, notes, raised, arg, collection>>

NextGovernment == FormatGovernment

SpecGovernment == InitGovernment /\ [][NextGovernment]_vars

(* ------------------------------ properties ---------------------------- *)

GovernmentFormatted == pc = "format_government"

\* the country has a country_rank that is neither None nor empty
ExplicitRank ==
    /\ "country_rank" \in DOMAIN country.attrs
    /\ country.attrs.country_rank \notin {None, ""}

\* the last line of the Government cell, the one of the rank
RankLine == returned.parts[Len(returned.parts)]

\* the name the cell shows for a rank key: the display name of the rank, or
\* the localisation of a key that is no rank of the parser, or the key
RankName(key) ==
    IF key \in DOMAIN parser.country_ranks
    THEN parser.country_ranks[key].display_name
    ELSE IF key = "rank_khanate" THEN "Khanate" ELSE key

\* the provinces of the locations in the ownership lists of the country
ListedLocationProvinces ==
    { l.province : l \in { m \in ListedLocations :
                              "province" \in DOMAIN m /\ m.province # None } }

\* C11: in the Government cell the rank shown is the country's explicit
\* country_rank whenever that is set; infer_country_rank_key is called only
\* when the country has no country_rank or an unset one, and its result
\* never replaces an explicit rank.
C11_ExplicitRankWins ==
    GovernmentFormatted =>
        /\ ExplicitRank =>
              /\ rank_key = country.attrs.country_rank
              /\ returned.calls = << >>
              /\ RankLine[4] = RankName(country.attrs.country_rank)
        /\ ~ExplicitRank =>
              /\ rank_key = rank_for_count(Cardinality(ListedLocationProvinces))
              /\ returned.calls = << "infer_country_rank_key" >>
              /\ RankLine[4] = RankName(rank_key)

\* a country that holds an empire's worth of provinces and is a duchy by
\* its explicit rank: the cell shows the duchy
C11_Witness ==
    /\ GovernmentFormatted
    /\ ExplicitRank
    /\ country.attrs.country_rank = "rank_duchy"
    /\ Cardinality(ListedLocationProvinces) >= 13
    /\ rank_key = "rank_duchy"
    /\ RankLine[4] = "Duchy"

(* ============== get_building_notes, format_modifier_section =========== *)

\* the largest number of noted attributes of one building that are absent
\* or differ from their default
MaxNonDefault == 3

\* the keys of messages_for_non_default_values, in the order of declaration
noted_attributes ==
    << "always_add_demands", "AI_ignore_available_worker_flag",
       "AI_optimization_flag_coastal", "allow_wrong_startup", "can_close",
       "conversion_religion", "forbidden_for_estates",
       "increase_per_level_cost", "in_empty", "is_foreign",
       "lifts_fog_of_war", "need_good_relation", "pop_size_created",
       "stronger_power_projection", "on_built", "on_destroyed" >>

\* the noted attributes whose value the f-string of their message reads
interpolated_attributes ==
    << "conversion_religion", "increase_per_level_cost", "in_empty",
       "pop_size_created", "on_built", "on_destroyed" >>

\* {"empty": "only", "any": "also", "owned": "not"}
in_empty_wording == ("empty" :> "only") @@ ("any" :> "also") @@ ("owned" :> "not")

\* self.formatter.add_red_green(value, positive_is_good=False, add_plus=True,
\* add_percent=True): the signed percentage in the colour of its sign
add_red_green(value) ==
    IF value > 0 THEN "{{red|+" \o ToString(value) \o "%}}"
    ELSE IF value < 0 THEN "{{green|" \o ToString(value) \o "%}}"
    ELSE "0%"

\* self.formatter.format_effect(effect)
format_effect(effect) == IF effect = None THEN "" ELSE "* " \o effect

\* self.create_wiki_list(elements): one bullet line per element, in the order
\* of the list; the empty list gives '', the cell without a line
create_wiki_list(elements) ==
    [ i \in 1..Len(elements) |-> << "* " >> \o elements[i] ]

\* messages_for_non_default_values[attribute], the pieces of its text
message(building, attribute) ==
    CASE attribute = "always_add_demands" -> << "Demand does not scale with workers" >>
      [] attribute = "AI_ignore_available_worker_flag" ->
            << "Build by AI even without available workers" >>
      [] attribute = "AI_optimization_flag_coastal" -> << "" >>
      [] attribute = "allow_wrong_startup" -> << "<tt>allow_wrong_startup</tt>" >>
      [] attribute = "can_close" -> << "Cannot be closed" >>
      [] attribute = "conversion_religion" ->
            << "Converts pops to ", building.conversion_religion >>
      [] attribute = "forbidden_for_estates" -> << "Cannot be build by estates" >>
      [] attribute = "increase_per_level_cost" ->
            << "Cost changes by ", add_red_green(building.increase_per_level_cost),
               " per level" >>
      [] attribute = "in_empty" ->
            << "Can ", in_empty_wording[building.in_empty],
               " be built in empty locations" >>
      [] attribute = "is_foreign" -> << "Foreign building" >>
      [] attribute = "lifts_fog_of_war" -> << "Lifts fog of war" >>
      [] attribute = "need_good_relation" ->
            << "Needs good relations when building in foreign provinces" >>
      [] attribute = "pop_size_created" ->
            << "Creates ", ToString(building.pop_size_created),
               " pops when building(taken from the capital of the owner)" >>
      [] attribute = "stronger_power_projection" ->
            << "Requires more power projection to construct in a foreign location" >>
      [] attribute = "on_built" ->
            << "'''On Built:'''\n", format_effect(building.on_built) >>
      [] attribute = "on_destroyed" ->
            << "'''On Destroyed:'''\n", format_effect(building.on_destroyed) >>

\* the exception that evaluating the message of an attribute raises while
\* the dict is built, "none" if it raises none
message_error(building, attribute) ==
    IF ~hasattr(building, attribute) THEN "AttributeError"
    ELSE IF attribute = "in_empty" /\ building.in_empty \notin DOMAIN in_empty_wording
         THEN "KeyError"
         ELSE "none"

\* the exception getattr(building, attribute) raises in the loop
getattr_error(building, attribute) ==
    IF hasattr(building, attribute) THEN "none" ELSE "AttributeError"

\* the first exception of a sequence of evaluations, "none" if there is none
first_error(errors) ==
    IF \E i \in 1..Len(errors) : errors[i] # "none"
    THEN errors[CHOOSE i \in 1..Len(errors) :
                    /\ errors[i] # "none"
                    /\ \A j \in 1..(i - 1) : errors[j] = "none"]
    ELSE "none"

\* the test of the loop with every attribute taken as non-default
is_non_default_always(building, attribute) == TRUE

\* getattr(building, attribute) != building.default_values[attribute]
is_non_default(building, attribute) ==
    building[attribute] # building.default_values[attribute]

\* get_building_notes(building): result is the list the loop fills, cell the
\* wiki list made of it
get_building_notes(building) ==
    LET error ==
            first_error(
                [ i \in 1..Len(interpolated_attributes) |->
                    message_error(building, interpolated_attributes[i]) ]
                \o [ i \in 1..Len(noted_attributes) |->
                    getattr_error(building, noted_attributes[i]) ])
        emitted(attribute) == is_non_default(building, attribute)
        attributes == SelectSeq(noted_attributes, emitted)
        result == [ i \in 1..Len(attributes) |-> message(building, attributes[i]) ]
    IN IF error # "none"
       THEN [raised |-> error, result |-> << >>, cell |-> << >>]
       ELSE [raised |-> "none", result |-> result, cell |-> create_wiki_list(result)]

\* modifier.format_for_wiki()
format_for_wiki(modifier) == << "{{icon|", modifier.name, "}} ", modifier.value >>

\* format_modifier_section with the attribute read without the hasattr test
format_modifier_section_unguarded(section, entity) ==
    IF hasattr(entity, section)
    THEN [raised |-> "none",
          cell |-> create_wiki_list(
                     [ i \in 1..Len(entity[section]) |->
                         format_for_wiki(entity[section][i]) ])]
    ELSE [raised |-> "AttributeError", cell |-> << >>]

format_modifier_section(section, entity) ==
    IF hasattr(entity, section)
    THEN [raised |-> "none",
          cell |-> create_wiki_list(
                     [ i \in 1..Len(entity[section]) |->
                         format_for_wiki(entity[section][i]) ])]
    ELSE [raised |-> "none", cell |-> << >>]

(* ------------------------------- inputs -------------------------------- *)

\* Building.default_values
default_values ==
    [ a \in { noted_attributes[i] : i \in 1..Len(noted_attributes) } |->
        CASE a = "can_close" -> TRUE
          [] a \in {"conversion_religion", "on_built", "on_destroyed"} -> None
          [] a \in {"increase_per_level_cost", "pop_size_created"} -> 0
          [] a = "in_empty" -> "any"
          [] OTHER -> FALSE ]

\* what a noted attribute of a building can be other than its default: a
\* value that is not the default, or no attribute at all
alternatives(attribute) ==
    CASE attribute = "can_close" -> << present(FALSE), absent >>
      [] attribute = "conversion_religion" -> << present("catholic"), absent >>
      [] attribute = "increase_per_level_cost" -> << present(10), present(-5) >>
      [] attribute = "in_empty" ->
            << present("empty"), present("owned"), present("coastal"), absent >>
      [] attribute = "pop_size_created" -> << present(5), present(1) >>
      [] attribute = "on_built" -> << present("add_stability = 1") >>
      [] attribute = "on_destroyed" -> << present("add_stability = -1") >>
      [] OTHER -> << present(TRUE) >>

modifier_sections == {"modifier", "capital_modifier", "raw_modifier"}

modifier_lists ==
    LET m1 == [name |-> "local_tax", value |-> "+10%"]
        m2 == [name |-> "local_unrest", value |-> "-1"]
    IN { absent, present(<< >>), present(<< m1 >>), present(<< m1, m2 >>),
         present(<< m2, m1 >>) }

\* a building: the noted attributes in `changed` take the chosen alternative,
\* the others their default; `sections` gives its modifier lists
building_of(changed, choice, sections) ==
    LET noted == { noted_attributes[i] : i \in 1..Len(noted_attributes) }
        option(a) == IF a \in changed THEN alternatives(a)[choice[a]]
                     ELSE present(default_values[a])
        value(a) == IF a \in noted THEN option(a) ELSE sections[a]
    IN [ a \in { b \in noted \cup modifier_sections : value(b).has } |-> value(a).value ]
       @@ ("name" :> "jewelry_guild") @@ ("default_values" :> default_values)

(* ---------------------------- state machine --------------------------- *)

\* Every choice of noted attributes is taken with one choice of modifier
\* lists, and every choice of modifier lists with the default building.
InitBuilding ==
    /\ \/ \E changed \in { c \in SUBSET DOMAIN default_values :
                              Cardinality(c) <= MaxNonDefault } :
            \E choice \in [changed -> 1..Len(alternatives("in_empty"))] :
                /\ \A a \in changed : choice[a] <= Len(alternatives(a))
                /\ arg = building_of(changed, choice,
                            [s \in modifier_sections |->
                                IF s = "modifier" THEN present(<< >>) ELSE absent])
       \/ \E sections \in [modifier_sections -> modifier_lists] :
            arg = building_of({}, << >>, sections)
    /\ pc = "start"
    /\ country = None
    /\ parser = None
    /\ provinces = {}
    /\ rank_key = "unset"
    /\ notes = << >>
    /\ raised = "none"
    /\ collection = << >>
    /\ returned = None

GetBuildingNotes ==
    /\ pc = "start"
    /\ LET result == get_building_notes(arg)
       IN /\ notes' = result.result
          /\ returned' = result.cell
          /\ raised' = result.raised
    /\ pc' = "get_building_notes"
    /\ UNCHANGED <<country, parser, provinces, rank_key, arg, collection>>

FormatModifierSection ==
    /\ pc = "start"
    /\ \E section \in modifier_sections :
          LET result == format_modifier_section(section, arg)
          IN /\ returned' = [section |-> section, cell |-> result.cell]
             /\ raised' = result.raised
    /\ pc' = "format_modifier_section"
    /\ UNCHANGED <<country, parser, provinces, rank_key, notes, arg, collection>>

NextBuilding == GetBuildingNotes \/ FormatModifierSection

SpecBuilding == InitBuilding /\ [][NextBuilding]_vars

(* ------------------------------ properties ---------------------------- *)

\* get_building_notes has returned its cell (it raised nothing)
BuildingNotesReturned == pc = "get_building_notes" /\ raised = "none"

\* the positions in the notes table of the attributes of the building whose
\* value is not the default
NonDefaultPositions ==
    { i \in 1..Len(noted_attributes) :
        arg[noted_attributes[i]] # arg.default_values[noted_attributes[i]] }

\* the text of the note of pop_size_created = 5
CreatesFivePops ==
    << "Creates ", "5", " pops when building(taken from the capital of the owner)" >>

\* C12: get_building_notes emits the note of a noted attribute exactly when
\* the building's value differs from building.default_values[attribute], and
\* the notes keep the order of declaration of the notes table; a building
\* with defaults only gets an empty notes cell, and one whose only
\* non-default is pop_size_created = 5 gets exactly the note 'Creates 5 pops'.
C12_NoteIffNonDefault ==
    BuildingNotesReturned =>
        /\ Len(notes) = Cardinality(NonDefaultPositions)
        /\ \A i \in NonDefaultPositions :
              notes[Cardinality({ j \in NonDefaultPositions : j <= i })]
                  = message(arg, noted_attributes[i])
        /\ Len(returned) = Len(notes)
        /\ \A k \in 1..Len(notes) : returned[k] = << "* " >> \o notes[k]
        /\ NonDefaultPositions = {} => returned = << >>
        /\ ( /\ \A i \in NonDefaultPositions : noted_attributes[i] = "pop_size_created"
             /\ arg.pop_size_created = 5 )
              => notes = << CreatesFivePops >>

\* three notes, of can_close, in_empty and pop_size_created, in that order
C12_Witness ==
    /\ BuildingNotesReturned
    /\ notes = << << "Cannot be closed" >>,
                  << "Can ", "only", " be built in empty locations" >>,
                  CreatesFivePops >>

\* the building lacks a noted attribute, or its in_empty has no wording
NoteLevelFailure ==
    \/ \E i \in 1..Len(noted_attributes) : noted_attributes[i] \notin DOMAIN arg
    \/ /\ "in_empty" \in DOMAIN arg
       /\ arg.in_empty \notin {"empty", "any", "owned"}

\* C13: a failure at the level of one note is recovered locally: for a
\* building that lacks a noted attribute, or whose in_empty has a value
\* without a wording, get_building_notes raises nothing and returns the
\* notes of the other attributes.
C13_NoteFailureRecovered ==
    (pc = "get_building_notes" /\ NoteLevelFailure) =>
        /\ raised = "none"
        /\ \A i \in 1..Len(noted_attributes) :
              ( /\ noted_attributes[i] \in DOMAIN arg
                /\ noted_attributes[i] # "in_empty"
                /\ arg[noted_attributes[i]] # arg.default_values[noted_attributes[i]] )
                  => \E k \in 1..Len(notes) :
                        notes[k] = message(arg, noted_attributes[i])

ModifierSectionFormatted == pc = "format_modifier_section"

\* C14: format_modifier_section returns the empty string when the entity
\* lacks the attribute and raises nothing for a missing attribute; when the
\* attribute is there, the cell lists the formatted modifiers in the order
\* of the attribute.
C14_ModifierSection ==
    ModifierSectionFormatted =>
        /\ raised = "none"
        /\ returned.section \notin DOMAIN arg => returned.cell = << >>
        /\ returned.section \in DOMAIN arg =>
              /\ Len(returned.cell) = Len(arg[returned.section])
              /\ \A i \in 1..Len(returned.cell) :
                    returned.cell[i]
                        = << "* ", "{{icon|", arg[returned.section][i].name, "}} ",
                             arg[returned.section][i].value >>

\* a building without capital_modifier whose modifier has two entries: the
\* cell of the missing section is empty
C14_Witness ==
    /\ ModifierSectionFormatted
    /\ returned.section = "capital_modifier"
    /\ "capital_modifier" \notin DOMAIN arg
    /\ "modifier" \in DOMAIN arg /\ Len(arg.modifier) = 2
    /\ returned.cell = << >>

(* ======================= _format_time_to_implement ==================== *)

\* the largest number of whole years that the days, the weeks or the months
\* of one policy hold
MaxCarry == 2
\* the largest number of years of one policy
MaxYears == 3

DaysPerYear == 365

WeeksPerYear == 52

MonthsPerYear == 12

\* the default of the parameter, which the one caller passes as well
ignore_default_years == 2

\* the locals days, weeks, months and years after the three carries with the
\* carried years dropped
normalized_time_without_carry(policy) ==
    [days |-> policy.days % DaysPerYear,
     weeks |-> policy.weeks % WeeksPerYear,
     months |-> policy.months % MonthsPerYear,
     years |-> policy.years]

\* the locals days, weeks, months and years after the three carries
normalized_time(policy) ==
    LET years1 == IF policy.days >= DaysPerYear
                  THEN policy.years + policy.days \div DaysPerYear
                  ELSE policy.years
        days == IF policy.days >= DaysPerYear THEN policy.days % DaysPerYear
                ELSE policy.days
        years2 == IF policy.weeks >= WeeksPerYear
                  THEN years1 + policy.weeks \div WeeksPerYear
                  ELSE years1
        weeks == IF policy.weeks >= WeeksPerYear THEN policy.weeks % WeeksPerYear
                 ELSE policy.weeks
        years3 == IF policy.months >= MonthsPerYear
                  THEN years2 + policy.months \div MonthsPerYear
                  ELSE years2
        months == IF policy.months >= MonthsPerYear
                  THEN policy.months % MonthsPerYear
                  ELSE policy.months
    IN [days |-> days, weeks |-> weeks, months |-> months, years |-> years3]

\* the list result with the units appended from the smallest to the largest
time_lines_days_first(time) ==
    (IF time.days > 0 THEN << << ToString(time.days), " days" >> >> ELSE << >>)
    \o (IF time.weeks > 0 THEN << << ToString(time.weeks), " weeks" >> >> ELSE << >>)
    \o (IF time.months > 0 THEN << << ToString(time.months), " months" >> >> ELSE << >>)
    \o (IF time.years > 0 THEN << << ToString(time.years), " years" >> >> ELSE << >>)

\* the list result: one line per unit that is greater than zero
time_lines(time) ==
    (IF time.years > 0 THEN << << ToString(time.years), " years" >> >> ELSE << >>)
    \o (IF time.months > 0 THEN << << ToString(time.months), " months" >> >> ELSE << >>)
    \o (IF time.weeks > 0 THEN << << ToString(time.weeks), " weeks" >> >> ELSE << >>)
    \o (IF time.days > 0 THEN << << ToString(time.days), " days" >> >> ELSE << >>)

\* _format_time_to_implement(policy, ignore_default_years): lines holds the
\* lines of the text returned, which is '' without a line; time holds the
\* locals at the return
_format_time_to_implement(policy, default_years) ==
    LET time == normalized_time(policy)
    IN IF /\ time.years = default_years
          /\ time.days = time.weeks /\ time.weeks = time.months /\ time.months = 0
       THEN [time |-> time, lines |-> << >>]
       ELSE [time |-> time, lines |-> time_lines(time)]

(* ------------------------------- inputs -------------------------------- *)

DayRemainders == {0, 1, 35, 364}

WeekRemainders == {0, 1, 51}

MonthRemainders == {0, 1, 11}

\* a LawPolicy with its four durations, none of them negative
LawPolicies ==
    [ days : { k * DaysPerYear + r : k \in 0..MaxCarry, r \in DayRemainders },
      weeks : { k * WeeksPerYear + r : k \in 0..MaxCarry, r \in WeekRemainders },
      months : { k * MonthsPerYear + r : k \in 0..MaxCarry, r \in MonthRemainders },
      years : 0..MaxYears ]

(* ---------------------------- state machine --------------------------- *)

InitTime ==
    /\ arg \in LawPolicies
    /\ pc = "start"
    /\ country = None
    /\ parser = None
    /\ provinces = {}
    /\ rank_key = "unset"
    /\ notes = << >>
    /\ raised = "none"
    /\ collection = << >>
    /\ returned = None

FormatTimeToImplement ==
    /\ pc = "start"
    /\ returned' = _format_time_to_implement(arg, ignore_default_years)
    /\ pc' = "_format_time_to_implement"
    /\ UNCHANGED <<country, parser, provinces, rank_key, notes, raised, arg,
                   collection>>

NextTime == FormatTimeToImplement

SpecTime == InitTime /\ [][NextTime]_vars

(* ------------------------------ properties ---------------------------- *)

TimeFormatted == pc = "_format_time_to_implement"

\* the durations the function ends with are those of the policy with the
\* whole years of each unit moved into the years
OverflowCarried ==
    TimeFormatted =>
        /\ returned.time.days = arg.days % 365
        /\ returned.time.weeks = arg.weeks % 52
        /\ returned.time.months = arg.months % 12
        /\ returned.time.years
              = arg.years + (arg.days \div 365) + (arg.weeks \div 52)
                    + (arg.months \div 12)

\* C15: for durations that are not negative, _format_time_to_implement
\* carries overflow into the years: days mod 365, weeks mod 52 and months
\* mod 12 stay, and the years grow by days div 365 + weeks div 52 + months
\* div 12; the policy object itself is not modified.
C15_OverflowCarriedIntoYears == []OverflowCarried /\ [][arg' = arg]_vars

\* 400 days are 1 year and 35 days; 53 weeks and 25 months carry as well
C15_Witness ==
    /\ TimeFormatted
    /\ arg = [days |-> 400, weeks |-> 53, months |-> 25, years |-> 1]
    /\ returned.time = [days |-> 35, weeks |-> 1, months |-> 1, years |-> 5]

\* the normalized duration of the policy
Normalized ==
    [years |-> arg.years + (arg.days \div 365) + (arg.weeks \div 52)
                    + (arg.months \div 12),
     months |-> arg.months % 12,
     weeks |-> arg.weeks % 52,
     days |-> arg.days % 365]

\* the lines of the units of the normalized duration that are not zero, in
\* the order years, months, weeks, days
NonZeroUnits ==
    LET units == << "years", "months", "weeks", "days" >>
        NonZero(unit) == Normalized[unit] # 0
        shown == SelectSeq(units, NonZero)
    IN [ i \in 1..Len(shown) |-> << ToString(Normalized[shown[i]]), " " \o shown[i] >> ]

\* C16: a policy of exactly 2 years, 0 months, 0 weeks and 0 days gets an
\* empty 'Time to implement' cell; a policy whose normalized duration is not
\* that default and has a unit that is not zero gets a cell that is not
\* empty and lists the non-zero units in the order years, months, weeks, days.
C16_DefaultHiddenElseListed ==
    TimeFormatted =>
        /\ arg = [years |-> 2, months |-> 0, weeks |-> 0, days |-> 0]
              => returned.lines = << >>
        /\ ( /\ Normalized # [years |-> 2, months |-> 0, weeks |-> 0, days |-> 0]
             /\ \E unit \in DOMAIN Normalized : Normalized[unit] # 0 )
              => /\ returned.lines # << >>
                 /\ returned.lines = NonZeroUnits

\* 2 years and 400 days: not the default, shown as 3 years and 35 days
C16_Witness ==
    /\ TimeFormatted
    /\ arg = [years |-> 2, months |-> 0, weeks |-> 0, days |-> 400]
    /\ returned.lines = << << "3", " years" >>, << "35", " days" >> >>

(* ================= grouping, sorting and the section keys ============= *)

\* the largest number of buildings of the parser
MaxBuildings == 2
\* the largest number of laws, privileges, traits or goods of the parser
MaxRows == 3

\* the display names of the model in the order of Python's str comparison,
\* which puts every upper-case letter before every lower-case letter
display_name_order == << "Armory", "Bank", "armory" >>

\* a.display_name <= b.display_name
display_name_le(a, b) ==
    LET rank(s) == CHOOSE i \in 1..Len(display_name_order) : display_name_order[i] = s
    IN rank(a.display_name) <= rank(b.display_name)

\* one step of the sort that puts the entity before its equals
insert_before_equals(entities, e) ==
    LET before == Cardinality({ i \in 1..Len(entities) :
                                  /\ display_name_le(entities[i], e)
                                  /\ ~display_name_le(e, entities[i]) })
    IN SubSeq(entities, 1, before) \o << e >>
           \o SubSeq(entities, before + 1, Len(entities))

\* one step of the sort: the entity goes behind every entity of the sorted
\* list that is not greater
insert_sorted(entities, e) ==
    LET before == Cardinality({ i \in 1..Len(entities) :
                                  display_name_le(entities[i], e) })
    IN SubSeq(entities, 1, before) \o << e >>
           \o SubSeq(entities, before + 1, Len(entities))

RECURSIVE sorted_by_display_name(_)
\* sorted(entities, key=attrgetter('display_name')), a stable sort
sorted_by_display_name(entities) ==
    IF entities = << >> THEN << >>
    ELSE insert_sorted(sorted_by_display_name(SubSeq(entities, 1, Len(entities) - 1)),
                       entities[Len(entities)])

\* attrgetter(*names)(entity): the attribute, or the tuple of the attributes
attrgetter(names, entity) ==
    IF Len(names) = 1 THEN entity[names[1]]
    ELSE [ i \in 1..Len(names) |-> entity[names[i]] ]

\* unsorted_groupby(iterable, key=attrgetter(*names)): the pairs (key,
\* entities of that key), the keys in the order of their first entity, the
\* entities in input order
unsorted_groupby(entities, names) ==
    LET key(e) == attrgetter(names, e)
        first(i) == \A j \in 1..(i - 1) : key(entities[j]) # key(entities[i])
        firsts == SelectSeq([ i \in 1..Len(entities) |-> i ], first)
    IN [ k \in 1..Len(firsts) |->
            LET same(e) == key(e) = key(entities[firsts[k]])
            IN [key |-> key(entities[firsts[k]]), items |-> SelectSeq(entities, same)] ]

\* a dict built from (key, value) pairs: a key stays where it was first
\* inserted and holds the value inserted last
dict_of(pairs) ==
    LET first(i) == \A j \in 1..(i - 1) : pairs[j].key # pairs[i].key
        firsts == SelectSeq([ i \in 1..Len(pairs) |-> i ], first)
        last(key) == CHOOSE i \in 1..Len(pairs) :
                        /\ pairs[i].key = key
                        /\ \A j \in (i + 1)..Len(pairs) : pairs[j].key # key
    IN [ k \in 1..Len(firsts) |-> pairs[last(pairs[firsts[k]].key)] ]

RECURSIVE concat(_)
\* the concatenation of a sequence of sequences
concat(seqs) ==
    IF seqs = << >> THEN << >> ELSE Head(seqs) \o concat(Tail(seqs))

\* type_names with the label of town+city given to (True, True, False) and
\* to (False, True, False)
type_names_town_twice ==
    (<<TRUE, TRUE, TRUE>> :> "common") @@ (<<FALSE, FALSE, TRUE>> :> "rural")
    @@ (<<FALSE, TRUE, FALSE>> :> "town+city") @@ (<<TRUE, FALSE, FALSE>> :> "city")
    @@ (<<TRUE, TRUE, FALSE>> :> "town+city") @@ (<<FALSE, TRUE, TRUE>> :> "town+rural")
    @@ (<<TRUE, FALSE, TRUE>> :> "city+rural") @@ (<<FALSE, FALSE, FALSE>> :> "nowhere")

\* type_names: (city, town, rural_settlement) -> label
type_names ==
    (<<TRUE, TRUE, TRUE>> :> "common") @@ (<<FALSE, FALSE, TRUE>> :> "rural")
    @@ (<<FALSE, TRUE, FALSE>> :> "town") @@ (<<TRUE, FALSE, FALSE>> :> "city")
    @@ (<<TRUE, TRUE, FALSE>> :> "town+city") @@ (<<FALSE, TRUE, TRUE>> :> "town+rural")
    @@ (<<TRUE, FALSE, TRUE>> :> "city+rural") @@ (<<FALSE, FALSE, FALSE>> :> "nowhere")

\* the rows of a table: one per entity, in the order of the list given
table_rows(entities) ==
    [ i \in 1..Len(entities) |->
        [name |-> entities[i].name, display_name |-> entities[i].display_name] ]

get_building_table(sorted_buildings) == table_rows(sorted_buildings)

\* get_building_tables(): the dict results as its items, the key of an item
\* being (type_name, category)
get_building_tables(buildings) ==
    LET by_flags == unsorted_groupby(buildings, << "city", "town", "rural_settlement" >>)
        buildings_by_location_type ==
            dict_of([ i \in 1..Len(by_flags) |->
                        [key |-> type_names[by_flags[i].key],
                         items |-> by_flags[i].items] ])
        tables_of(group) ==
            LET buildings_by_category == unsorted_groupby(group.items, << "category" >>)
            IN [ i \in 1..Len(buildings_by_category) |->
                    [key |-> << group.key, buildings_by_category[i].key >>,
                     table |-> get_building_table(
                        sorted_by_display_name(buildings_by_category[i].items))] ]
    IN dict_of(concat([ i \in 1..Len(buildings_by_location_type) |->
                          tables_of(buildings_by_location_type[i]) ]))

\* type_name.replace("+", "_") on the labels of type_names
replace_plus(type_name) ==
    CASE type_name = "town+city" -> "town_city"
      [] type_name = "town+rural" -> "town_rural"
      [] type_name = "city+rural" -> "city_rural"
      [] OTHER -> type_name

\* f'buildings_{type_name.replace("+", "_")}_{category.name}' in get_building_sections
building_section_key(type_name, category) ==
    "buildings_" \o replace_plus(type_name) \o "_" \o category.name

\* the key generate_building_tables wraps a section under, the label taken
\* as it is
wrapped_section_key_unreplaced(type_name, category) ==
    "buildings_" \o type_name \o "_" \o category.name

\* f'buildings_{type_name.replace("+", "_")}_{category.name}' in generate_building_tables
wrapped_section_key(type_name, category) ==
    "buildings_" \o replace_plus(type_name) \o "_" \o category.name

\* the iconbox of the category, a line break and the table
section_content(category, building_table) ==
    [iconbox |-> << "{{iconbox||", category.description, "|image=",
                    category.name \o ".png", "}}" >>,
     table |-> building_table]

\* get_building_sections(): the dict as its items
get_building_sections(buildings) ==
    LET tables == get_building_tables(buildings)
    IN dict_of([ i \in 1..Len(tables) |->
                   [key |-> building_section_key(tables[i].key[1], tables[i].key[2]),
                    content |-> section_content(tables[i].key[2], tables[i].table)] ])

\* generate_building_tables(): the list result; a section is the content
\* between the markers of its key
generate_building_tables(buildings) ==
    LET tables == get_building_tables(buildings)
        type_name(i) == tables[i].key[1]
        category(i) == tables[i].key[2]
    IN concat([ i \in 1..Len(tables) |->
                  (IF i = 1 \/ type_name(i) # type_name(i - 1)
                   THEN << [heading |-> << "== ", type_name(i), " buildings ==" >>] >>
                   ELSE << >>)
                  \o << [heading |-> << "=== ", category(i).display_name, " ===" >>],
                        [section |-> wrapped_section_key(type_name(i), category(i)),
                         group |-> tables[i].key,
                         content |-> section_content(category(i), tables[i].table)] >> ])

\* f'laws_{io_type_section}{law_category}'
law_section_key(io_type, law_category) ==
    "laws_" \o (IF io_type = "" THEN "" ELSE "io_" \o io_type \o "_") \o law_category

\* get_law_table(laws), or get_laws_as_sections(laws, level) with its level;
\* a section_level that is absent stands for None
law_data(laws, io_type, section_level) ==
    IF ~section_level.has THEN [table |-> table_rows(laws)]
    ELSE [sections |-> table_rows(laws),
          level |-> section_level.value + (IF io_type = "" THEN 0 ELSE 1)]

\* get_law_tables(section_level): the dict result as its items
get_law_tables(laws, section_level) ==
    LET groups == unsorted_groupby(laws, << "io_type", "law_category" >>)
    IN dict_of([ i \in 1..Len(groups) |->
                   [key |-> law_section_key(groups[i].key[1], groups[i].key[2]),
                    group |-> groups[i].key,
                    data |-> law_data(groups[i].items, groups[i].key[1], section_level)] ])

\* get_privileges_sections(): the dict sections as its items
get_privileges_sections(estate_privileges) ==
    LET groups == unsorted_groupby(estate_privileges, << "estate" >>)
    IN dict_of([ i \in 1..Len(groups) |->
                   [key |-> "estate_privileges_" \o groups[i].key.name,
                    table |-> table_rows(sorted_by_display_name(groups[i].items))] ])

\* get_trait_sections(): the dict sections as its items
get_trait_sections(traits) ==
    LET groups == unsorted_groupby(traits, << "category" >>)
    IN dict_of([ i \in 1..Len(groups) |->
                   [key |-> "traits_" \o groups[i].key,
                    table |-> table_rows(sorted_by_display_name(groups[i].items))] ])

\* get_goods_table(goods): the rows of the table, none for ''
get_goods_table(goods) == table_rows(sorted_by_display_name(goods))

(* ------------------------------- inputs -------------------------------- *)

building_categories ==
    { [name |-> "defense", display_name |-> "Defense", description |-> "Forts"],
      [name |-> "city_defense", display_name |-> "City defense",
       description |-> "Walls"] }

\* what one building is made of: its three flags, its category, its name
building_choices ==
    [flags : DOMAIN type_names, category : building_categories,
     display_name : {"Armory", "Bank"}]

building(i, choice) ==
    [name |-> "building_" \o ToString(i), display_name |-> choice.display_name,
     city |-> choice.flags[1], town |-> choice.flags[2],
     rural_settlement |-> choice.flags[3], category |-> choice.category]

law_choices ==
    [io_type : {"", "hre"}, law_category : {"reform", "io_hre_reform"},
     display_name : {"Armory", "Bank"}]

law(i, choice) ==
    [name |-> "law_" \o ToString(i), display_name |-> choice.display_name,
     io_type |-> choice.io_type, law_category |-> choice.law_category]

display_names == { display_name_order[i] : i \in 1..Len(display_name_order) }

privilege_choices ==
    [estate : { [name |-> "nobles_estate"], [name |-> "clergy_estate"] },
     display_name : display_names]

privilege(i, choice) ==
    [name |-> "privilege_" \o ToString(i), display_name |-> choice.display_name,
     estate |-> choice.estate]

trait_choices == [category : {"ruler", "general"}, display_name : display_names]

trait(i, choice) ==
    [name |-> "trait_" \o ToString(i), display_name |-> choice.display_name,
     category |-> choice.category]

good_choices == [display_name : display_names]

good(i, choice) ==
    [name |-> "good_" \o ToString(i), display_name |-> choice.display_name]

\* the section_level get_law_tables is given: None or a level
section_levels == { absent, present(2) }

(* ---------------------------- state machine --------------------------- *)

\* the values() of one collection of the parser, in the order of its dict
InitTables ==
    /\ \/ \E n \in 0..MaxBuildings : \E choice \in [1..n -> building_choices] :
            collection = [kind |-> "buildings",
                          items |-> [i \in 1..n |-> building(i, choice[i])]]
       \/ \E n \in 0..MaxRows : \E choice \in [1..n -> law_choices] :
            collection = [kind |-> "laws",
                          items |-> [i \in 1..n |-> law(i, choice[i])]]
       \/ \E n \in 0..MaxRows : \E choice \in [1..n -> privilege_choices] :
            collection = [kind |-> "estate_privileges",
                          items |-> [i \in 1..n |-> privilege(i, choice[i])]]
       \/ \E n \in 0..MaxRows : \E choice \in [1..n -> trait_choices] :
            collection = [kind |-> "traits",
                          items |-> [i \in 1..n |-> trait(i, choice[i])]]
       \/ \E n \in 0..MaxRows : \E choice \in [1..n -> good_choices] :
            collection = [kind |-> "goods",
                          items |-> [i \in 1..n |-> good(i, choice[i])]]
    /\ pc = "start"
    /\ country = None
    /\ parser = None
    /\ provinces = {}
    /\ rank_key = "unset"
    /\ notes = << >>
    /\ raised = "none"
    /\ arg = None
    /\ returned = None

GetBuildingTables ==
    /\ pc = "start"
    /\ collection.kind = "buildings"
    /\ returned' = get_building_tables(collection.items)
    /\ pc' = "get_building_tables"
    /\ UNCHANGED <<country, parser, provinces, rank_key, notes, raised, arg,
                   collection>>

GetBuildingSections ==
    /\ pc = "start"
    /\ collection.kind = "buildings"
    /\ returned' = get_building_sections(collection.items)
    /\ pc' = "get_building_sections"
    /\ UNCHANGED <<country, parser, provinces, rank_key, notes, raised, arg,
                   collection>>

GenerateBuildingTables ==
    /\ pc = "start"
    /\ collection.kind = "buildings"
    /\ returned' = generate_building_tables(collection.items)
    /\ pc' = "generate_building_tables"
    /\ UNCHANGED <<country, parser, provinces, rank_key, notes, raised, arg,
                   collection>>

GetLawTables ==
    /\ pc = "start"
    /\ collection.kind = "laws"
    /\ \E section_level \in section_levels :
          returned' = get_law_tables(collection.items, section_level)
    /\ pc' = "get_law_tables"
    /\ UNCHANGED <<country, parser, provinces, rank_key, notes, raised, arg,
                   collection>>

GetPrivilegesSections ==
    /\ pc = "start"
    /\ collection.kind = "estate_privileges"
    /\ returned' = get_privileges_sections(collection.items)
    /\ pc' = "get_privileges_sections"
    /\ UNCHANGED <<country, parser, provinces, rank_key, notes, raised, arg,
                   collection>>

GetTraitSections ==
    /\ pc = "start"
    /\ collection.kind = "traits"
    /\ returned' = get_trait_sections(collection.items)
    /\ pc' = "get_trait_sections"
    /\ UNCHANGED <<country, parser, provinces, rank_key, notes, raised, arg,
                   collection>>

GetGoodsTable ==
    /\ pc = "start"
    /\ collection.kind = "goods"
    /\ returned' = get_goods_table(collection.items)
    /\ pc' = "get_goods_table"
    /\ UNCHANGED <<country, parser, provinces, rank_key, notes, raised, arg,
                   collection>>

NextTables ==
    \/ GetBuildingTables
    \/ GetBuildingSections
    \/ GenerateBuildingTables
    \/ GetLawTables
    \/ GetPrivilegesSections
    \/ GetTraitSections
    \/ GetGoodsTable

SpecTables == InitTables /\ [][NextTables]_vars

(* ------------------------------ properties ---------------------------- *)

Items == { collection.items[i] : i \in 1..Len(collection.items) }

\* the groups of the buildings: (city, town, rural_settlement) and category
BuildingGroups ==
    { << << b.city, b.town, b.rural_settlement >>, b.category >> : b \in Items }

\* the groups of the laws: io_type and law_category
LawGroups == { << l.io_type, l.law_category >> : l \in Items }

\* the sections of the list generate_building_tables returned
WrappedSections ==
    SelectSeq(returned, LAMBDA item : "section" \in DOMAIN item)

\* C17: section keys are unique within one pass: in get_building_sections,
\* generate_building_tables and get_law_tables two different groups, of
\* (location type, category) or of (io_type, law_category), never get the
\* same section key, so every group has a section of its own.
C17_SectionKeysUnique ==
    /\ pc = "get_building_sections" => Len(returned) = Cardinality(BuildingGroups)
    /\ pc = "generate_building_tables" =>
          \A i, j \in 1..Len(WrappedSections) :
              i # j => WrappedSections[i].section # WrappedSections[j].section
    /\ pc = "get_law_tables" => Len(returned) = Cardinality(LawGroups)

\* the label of a location type with every + replaced by _
PlusFreeLabel(type_name) ==
    CASE type_name = "common" -> "common"
      [] type_name = "rural" -> "rural"
      [] type_name = "town" -> "town"
      [] type_name = "city" -> "city"
      [] type_name = "town+city" -> "town_city"
      [] type_name = "town+rural" -> "town_rural"
      [] type_name = "city+rural" -> "city_rural"
      [] type_name = "nowhere" -> "nowhere"

\* C18: the key of a building section is 'buildings_', the location type
\* with every + replaced by _, '_' and the category name, so the label adds
\* no + to a key; generate_building_tables wraps the content of a group
\* under exactly the key get_building_sections returns for that group.
C18_BuildingSectionKey ==
    pc = "generate_building_tables" =>
        \A i \in 1..Len(WrappedSections) :
            LET s == WrappedSections[i]
                sections == get_building_sections(collection.items)
            IN /\ s.section = "buildings_" \o PlusFreeLabel(s.group[1]) \o "_"
                                  \o s.group[2].name
               /\ s.section = building_section_key(s.group[1], s.group[2])
               /\ \E k \in 1..Len(sections) : sections[k].key = s.section

\* a town+city group and a town group, wrapped under keys without +
C18_Witness ==
    /\ pc = "generate_building_tables"
    /\ Len(WrappedSections) = 2
    /\ WrappedSections[1].group[1] = "town+city"
    /\ WrappedSections[1].section = "buildings_town_city_defense"
    /\ WrappedSections[2].section = "buildings_town_defense"

\* the flags a label names
FlagsNamed(type_name) ==
    CASE type_name = "common" -> {"city", "town", "rural_settlement"}
      [] type_name = "rural" -> {"rural_settlement"}
      [] type_name = "town" -> {"town"}
      [] type_name = "city" -> {"city"}
      [] type_name = "town+city" -> {"town", "city"}
      [] type_name = "town+rural" -> {"town", "rural_settlement"}
      [] type_name = "city+rural" -> {"city", "rural_settlement"}
      [] type_name = "nowhere" -> {}

\* the places (table, row) of get_building_tables that show the building
PlacesOf(b) ==
    { place \in UNION { { << k, r >> : r \in 1..Len(returned[k].table) } :
                          k \in 1..Len(returned) } :
        returned[place[1]].table[place[2]].name = b.name }

\* C19: every building is in exactly one (location type, category) table of
\* get_building_tables, once: the table of its category whose label names
\* exactly those of the flags city, town, rural_settlement that are true for
\* it, the eight combinations having eight labels; none is dropped or shown
\* twice.
C19_EveryBuildingInOneTable ==
    pc = "get_building_tables" =>
        /\ \A b \in Items :
              /\ Cardinality(PlacesOf(b)) = 1
              /\ \A place \in PlacesOf(b) :
                    /\ FlagsNamed(returned[place[1]].key[1])
                          = { f \in {"city", "town", "rural_settlement"} : b[f] }
                    /\ returned[place[1]].key[2] = b.category
        /\ \A k \in 1..Len(returned) : \A r \in 1..Len(returned[k].table) :
              \E b \in Items : << k, r >> \in PlacesOf(b)
        /\ \A k, l \in 1..Len(returned) : k # l => returned[k].key # returned[l].key

\* a town building and a town+city building of one category: two tables
C19_Witness ==
    /\ pc = "get_building_tables"
    /\ Len(collection.items) = 2
    /\ Len(returned) = 2
    /\ returned[1].key[1] = "town" /\ returned[2].key[1] = "town+city"
    /\ returned[1].key[2] = returned[2].key[2]
    /\ Len(returned[1].table) = 1 /\ Len(returned[2].table) = 1

\* the tables with sorted rows that the function returned
SortedTables ==
    CASE pc = "get_goods_table" -> << returned >>
      [] pc \in {"get_building_tables", "get_privileges_sections",
                 "get_trait_sections"} ->
            [ k \in 1..Len(returned) |-> returned[k].table ]
      [] OTHER -> << >>

\* the place of the entity of that name in the input
InputPosition(name) ==
    CHOOSE i \in 1..Len(collection.items) : collection.items[i].name = name

\* the place of a display name in the order of str
DisplayRank(s) ==
    CASE s = "Armory" -> 1 [] s = "Bank" -> 2 [] s = "armory" -> 3

\* C20: in every building, estate privilege, trait and goods table the rows
\* are in non-decreasing order of display name, and rows of equal display
\* name keep the order they have in the input, which fixes the row order
\* of every run.
C20_RowsSortedStable ==
    \A k \in 1..Len(SortedTables) :
        \A r, q \in 1..Len(SortedTables[k]) :
            r < q =>
                LET a == SortedTables[k][r]
                    b == SortedTables[k][q]
                IN /\ DisplayRank(a.display_name) <= DisplayRank(b.display_name)
                   /\ a.display_name = b.display_name
                        => InputPosition(a.name) < InputPosition(b.name)

\* three traits of one category, given as armory, Bank, Bank: the rows are
\* the two Bank in their input order and then armory
C20_Witness ==
    /\ pc = "get_trait_sections"
    /\ Len(returned) = 1
    /\ Len(returned[1].table) = 3
    /\ returned[1].table[1] = [name |-> "trait_2", display_name |-> "Bank"]
    /\ returned[1].table[2] = [name |-> "trait_3", display_name |-> "Bank"]
    /\ returned[1].table[3] = [name |-> "trait_1", display_name |-> "armory"]

(* ======================= the boolean columns of the tables ============ *)

\* a Python value of an attribute that is None or a bool
none_value == [none |-> TRUE]

bool_value(b) == [none |-> FALSE, bool |-> b]

\* value is None
is_none(value) == value.none

\* the truth value of a value that is None or a bool
truthy(value) == ~value.none /\ value.bool

\* '[[File:Yes.png|20px|...]]' if value else '[[File:No.png|20px|...]]',
\* the test for None left out
boolean_cell_without_none_test(value, column) ==
    IF truthy(value) THEN << "[[File:Yes.png|20px|", column.yes, "]]" >>
    ELSE << "[[File:No.png|20px|", column.no, "]]" >>

\* the cell of a boolean column: '' if value is None else the markup, for a
\* column whose expression starts with that test; the markup alone for one
\* whose expression does not. The empty string is the cell without a piece.
boolean_cell(value, column) ==
    IF column.none_test /\ is_none(value) THEN << >>
    ELSE IF truthy(value) THEN << "[[File:Yes.png|20px|", column.yes, "]]" >>
    ELSE << "[[File:No.png|20px|", column.no, "]]" >>

\* the cells of the boolean columns of the row of one entity
boolean_cells(columns, entity) ==
    [ label \in { columns[i].column : i \in 1..Len(columns) } |->
        LET column == columns[CHOOSE i \in 1..Len(columns) : columns[i].column = label]
        IN boolean_cell(entity[column.attribute], column) ]

\* the boolean columns of get_law_data: the label of the column, the attribute it
\* shows, the texts in its Yes and No markup, whether it tests for None
get_law_data_columns ==
    << [column |-> "Requires Vote", attribute |-> "requires_vote",
         yes |-> "Requires Vote", no |-> "Not Requires Vote",
         none_test |-> TRUE],
       [column |-> "Unique", attribute |-> "unique",
         yes |-> "Unique", no |-> "Not Unique",
         none_test |-> TRUE] >>

\* the boolean columns of get_law_policy_table: the label of the column, the attribute it
\* shows, the texts in its Yes and No markup, whether it tests for None
get_law_policy_table_columns ==
    << [column |-> "Gold", attribute |-> "gold",
         yes |-> "Gold", no |-> "Not Gold",
         none_test |-> TRUE],
       [column |-> "Manpower", attribute |-> "manpower",
         yes |-> "Manpower", no |-> "Not Manpower",
         none_test |-> TRUE],
       [column |-> "Allow Member Annexation", attribute |-> "allow_member_annexation",
         yes |-> "Allow Member Annexation", no |-> "Not Allow Member Annexation",
         none_test |-> TRUE],
       [column |-> "Can Build Buildings In Members", attribute |-> "can_build_buildings_in_members",
         yes |-> "Can Build Buildings In Members", no |-> "Not Can Build Buildings In Members",
         none_test |-> TRUE],
       [column |-> "Can Build Rgos In Members", attribute |-> "can_build_rgos_in_members",
         yes |-> "Can Build Rgos In Members", no |-> "Not Can Build Rgos In Members",
         none_test |-> TRUE],
       [column |-> "Can Build Roads In Members", attribute |-> "can_build_roads_in_members",
         yes |-> "Can Build Roads In Members", no |-> "Not Can Build Roads In Members",
         none_test |-> TRUE],
       [column |-> "Has Parliament", attribute |-> "has_parliament",
         yes |-> "Has Parliament", no |-> "Not Has Parliament",
         none_test |-> TRUE] >>

\* the boolean columns of generate_advances_table: the label of the column, the attribute it
\* shows, the texts in its Yes and No markup, whether it tests for None
generate_advances_table_columns ==
    << [column |-> "Allow Children", attribute |-> "allow_children",
         yes |-> "Allow Children", no |-> "Not Allow Children",
         none_test |-> FALSE] >>

\* the boolean columns of generate_cabinet_actions_table: the label of the column, the attribute it
\* shows, the texts in its Yes and No markup, whether it tests for None
generate_cabinet_actions_table_columns ==
    << [column |-> "Allow Multiple", attribute |-> "allow_multiple",
         yes |-> "Allow Multiple", no |-> "Not Allow Multiple",
         none_test |-> TRUE],
       [column |-> "Forbid For Automation", attribute |-> "forbid_for_automation",
         yes |-> "Forbid For Automation", no |-> "Not Forbid For Automation",
         none_test |-> FALSE] >>

\* the boolean columns of generate_casus_belli_table: the label of the column, the attribute it
\* shows, the texts in its Yes and No markup, whether it tests for None
generate_casus_belli_table_columns ==
    << [column |-> "Allow Ports For Reach Ai", attribute |-> "allow_ports_for_reach_ai",
         yes |-> "Allow Ports For Reach Ai", no |-> "Not Allow Ports For Reach Ai",
         none_test |-> FALSE],
       [column |-> "Allow Release Areas", attribute |-> "allow_release_areas",
         yes |-> "Allow Release Areas", no |-> "Not Allow Release Areas",
         none_test |-> FALSE],
       [column |-> "Allow Separate Peace", attribute |-> "allow_separate_peace",
         yes |-> "Allow Separate Peace", no |-> "Not Allow Separate Peace",
         none_test |-> FALSE],
       [column |-> "Can Expire", attribute |-> "can_expire",
         yes |-> "Can Expire", no |-> "Not Can Expire",
         none_test |-> FALSE],
       [column |-> "Cut Down In Size Cb", attribute |-> "cut_down_in_size_cb",
         yes |-> "Cut Down In Size Cb", no |-> "Not Cut Down In Size Cb",
         none_test |-> FALSE],
       [column |-> "No Cb", attribute |-> "no_cb",
         yes |-> "No Cb", no |-> "Not No Cb",
         none_test |-> TRUE],
       [column |-> "Trade", attribute |-> "trade",
         yes |-> "Trade", no |-> "Not Trade",
         none_test |-> FALSE] >>

\* the boolean columns of generate_cultures_table: the label of the column, the attribute it
\* shows, the texts in its Yes and No markup, whether it tests for None
generate_cultures_table_columns ==
    << [column |-> "Use Patronym", attribute |-> "use_patronym",
         yes |-> "Use Patronym", no |-> "Not Use Patronym",
         none_test |-> FALSE] >>

\* the boolean columns of generate_languages_table: the label of the column, the attribute it
\* shows, the texts in its Yes and No markup, whether it tests for None
generate_languages_table_columns ==
    << [column |-> "Require Genitive Location Names", attribute |-> "require_genitive_location_names",
         yes |-> "Require Genitive Location Names", no |-> "Not Require Genitive Location Names",
         none_test |-> FALSE] >>

\* the boolean columns of generate_peace_treaties_table: the label of the column, the attribute it
\* shows, the texts in its Yes and No markup, whether it tests for None
generate_peace_treaties_table_columns ==
    << [column |-> "Are Targets Exclusive", attribute |-> "are_targets_exclusive",
         yes |-> "Are Targets Exclusive", no |-> "Not Are Targets Exclusive",
         none_test |-> FALSE],
       [column |-> "Blocks Full Annexation", attribute |-> "blocks_full_annexation",
         yes |-> "Blocks Full Annexation", no |-> "Not Blocks Full Annexation",
         none_test |-> FALSE] >>

\* the boolean columns of generate_religions_table: the label of the column, the attribute it
\* shows, the texts in its Yes and No markup, whether it tests for None
generate_religions_table_columns ==
    << [column |-> "Ai Wants Convert", attribute |-> "ai_wants_convert",
         yes |-> "Ai Wants Convert", no |-> "Not Ai Wants Convert",
         none_test |-> FALSE],
       [column |-> "Culture Locked", attribute |-> "culture_locked",
         yes |-> "Culture Locked", no |-> "Not Culture Locked",
         none_test |-> FALSE],
       [column |-> "Has Autocephalous Patriarchates", attribute |-> "has_autocephalous_patriarchates",
         yes |-> "Has Autocephalous Patriarchates", no |-> "Not Has Autocephalous Patriarchates",
         none_test |-> FALSE],
       [column |-> "Has Avatars", attribute |-> "has_avatars",
         yes |-> "Has Avatars", no |-> "Not Has Avatars",
         none_test |-> FALSE],
       [column |-> "Has Canonization", attribute |-> "has_canonization",
         yes |-> "Has Canonization", no |-> "Not Has Canonization",
         none_test |-> FALSE],
       [column |-> "Has Cardinals", attribute |-> "has_cardinals",
         yes |-> "Has Cardinals", no |-> "Not Has Cardinals",
         none_test |-> FALSE],
       [column |-> "Has Doom", attribute |-> "has_doom",
         yes |-> "Has Doom", no |-> "Not Has Doom",
         none_test |-> FALSE],
       [column |-> "Has Honor", attribute |-> "has_honor",
         yes |-> "Has Honor", no |-> "Not Has Honor",
         none_test |-> FALSE],
       [column |-> "Has Karma", attribute |-> "has_karma",
         yes |-> "Has Karma", no |-> "Not Has Karma",
         none_test |-> FALSE],
       [column |-> "Has Patriarchs", attribute |-> "has_patriarchs",
         yes |-> "Has Patriarchs", no |-> "Not Has Patriarchs",
         none_test |-> FALSE],
       [column |-> "Has Purity", attribute |-> "has_purity",
         yes |-> "Has Purity", no |-> "Not Has Purity",
         none_test |-> FALSE],
       [column |-> "Has Religious Head", attribute |-> "has_religious_head",
         yes |-> "Has Religious Head", no |-> "Not Has Religious Head",
         none_test |-> FALSE],
       [column |-> "Has Religious Influence", attribute |-> "has_religious_influence",
         yes |-> "Has Religious Influence", no |-> "Not Has Religious Influence",
         none_test |-> FALSE],
       [column |-> "Has Rite Power", attribute |-> "has_rite_power",
         yes |-> "Has Rite Power", no |-> "Not Has Rite Power",
         none_test |-> FALSE],
       [column |-> "Has Yanantin", attribute |-> "has_yanantin",
         yes |-> "Has Yanantin", no |-> "Not Has Yanantin",
         none_test |-> FALSE],
       [column |-> "Needs Reform", attribute |-> "needs_reform",
         yes |-> "Needs Reform", no |-> "Not Needs Reform",
         none_test |-> FALSE],
       [column |-> "Use Icons", attribute |-> "use_icons",
         yes |-> "Use Icons", no |-> "Not Use Icons",
         none_test |-> FALSE] >>

\* the boolean columns of generate_subject_types_table: the label of the column, the attribute it
\* shows, the texts in its Yes and No markup, whether it tests for None
generate_subject_types_table_columns ==
    << [column |-> "Allow Declaring Wars", attribute |-> "allow_declaring_wars",
         yes |-> "Allow Declaring Wars", no |-> "Not Allow Declaring Wars",
         none_test |-> FALSE],
       [column |-> "Can Be Force Broken In Peace Treaty", attribute |-> "can_be_force_broken_in_peace_treaty",
         yes |-> "Can Be Force Broken In Peace Treaty", no |-> "Not Can Be Force Broken In Peace Treaty",
         none_test |-> FALSE],
       [column |-> "Can Change Heir Selection", attribute |-> "can_change_heir_selection",
         yes |-> "Can Change Heir Selection", no |-> "Not Can Change Heir Selection",
         none_test |-> FALSE],
       [column |-> "Can Change Rank", attribute |-> "can_change_rank",
         yes |-> "Can Change Rank", no |-> "Not Can Change Rank",
         none_test |-> FALSE],
       [column |-> "Can Overlord Build Buildings", attribute |-> "can_overlord_build_buildings",
         yes |-> "Can Overlord Build Buildings", no |-> "Not Can Overlord Build Buildings",
         none_test |-> FALSE],
       [column |-> "Can Overlord Build Rgos", attribute |-> "can_overlord_build_rgos",
         yes |-> "Can Overlord Build Rgos", no |-> "Not Can Overlord Build Rgos",
         none_test |-> FALSE],
       [column |-> "Can Overlord Build Roads", attribute |-> "can_overlord_build_roads",
         yes |-> "Can Overlord Build Roads", no |-> "Not Can Overlord Build Roads",
         none_test |-> FALSE],
       [column |-> "Can Overlord Build Ships", attribute |-> "can_overlord_build_ships",
         yes |-> "Can Overlord Build Ships", no |-> "Not Can Overlord Build Ships",
         none_test |-> FALSE],
       [column |-> "Can Overlord Recruit Regiments", attribute |-> "can_overlord_recruit_regiments",
         yes |-> "Can Overlord Recruit Regiments", no |-> "Not Can Overlord Recruit Regiments",
         none_test |-> FALSE],
       [column |-> "Fleet Basing Rights", attribute |-> "fleet_basing_rights",
         yes |-> "Fleet Basing Rights", no |-> "Not Fleet Basing Rights",
         none_test |-> FALSE],
       [column |-> "Food Access", attribute |-> "food_access",
         yes |-> "Food Access", no |-> "Not Food Access",
         none_test |-> FALSE],
       [column |-> "Has Limited Diplomacy", attribute |-> "has_limited_diplomacy",
         yes |-> "Has Limited Diplomacy", no |-> "Not Has Limited Diplomacy",
         none_test |-> FALSE],
       [column |-> "Has Overlords Ruler", attribute |-> "has_overlords_ruler",
         yes |-> "Has Overlords Ruler", no |-> "Not Has Overlords Ruler",
         none_test |-> FALSE],
       [column |-> "Is Colonial Subject", attribute |-> "is_colonial_subject",
         yes |-> "Is Colonial Subject", no |-> "Not Is Colonial Subject",
         none_test |-> FALSE],
       [column |-> "Only Overlord Court Language", attribute |-> "only_overlord_court_language",
         yes |-> "Only Overlord Court Language", no |-> "Not Only Overlord Court Language",
         none_test |-> FALSE],
       [column |-> "Only Overlord Culture", attribute |-> "only_overlord_culture",
         yes |-> "Only Overlord Culture", no |-> "Not Only Overlord Culture",
         none_test |-> FALSE],
       [column |-> "Only Overlord Or Kindred Culture", attribute |-> "only_overlord_or_kindred_culture",
         yes |-> "Only Overlord Or Kindred Culture", no |-> "Not Only Overlord Or Kindred Culture",
         none_test |-> FALSE],
       [column |-> "Overlord Can Cancel", attribute |-> "overlord_can_cancel",
         yes |-> "Overlord Can Cancel", no |-> "Not Overlord Can Cancel",
         none_test |-> FALSE],
       [column |-> "Overlord Can Enforce Peace On Subject", attribute |-> "overlord_can_enforce_peace_on_subject",
         yes |-> "Overlord Can Enforce Peace On Subject", no |-> "Not Overlord Can Enforce Peace On Subject",
         none_test |-> FALSE],
       [column |-> "Overlord Inherit If No Heir", attribute |-> "overlord_inherit_if_no_heir",
         yes |-> "Overlord Inherit If No Heir", no |-> "Not Overlord Inherit If No Heir",
         none_test |-> FALSE],
       [column |-> "Overlord Share Exploration", attribute |-> "overlord_share_exploration",
         yes |-> "Overlord Share Exploration", no |-> "Not Overlord Share Exploration",
         none_test |-> FALSE],
       [column |-> "Subject Can Cancel", attribute |-> "subject_can_cancel",
         yes |-> "Subject Can Cancel", no |-> "Not Subject Can Cancel",
         none_test |-> TRUE],
       [column |-> "Use Overlord Laws", attribute |-> "use_overlord_laws",
         yes |-> "Use Overlord Laws", no |-> "Not Use Overlord Laws",
         none_test |-> FALSE],
       [column |-> "Use Overlord Map Color", attribute |-> "use_overlord_map_color",
         yes |-> "Use Overlord Map Color", no |-> "Not Use Overlord Map Color",
         none_test |-> TRUE],
       [column |-> "Use Overlord Map Name", attribute |-> "use_overlord_map_name",
         yes |-> "Use Overlord Map Name", no |-> "Not Use Overlord Map Name",
         none_test |-> FALSE] >>

\* the boolean columns of generate_unit_types_table: the label of the column, the attribute it
\* shows, the texts in its Yes and No markup, whether it tests for None
generate_unit_types_table_columns ==
    << [column |-> "Buildable", attribute |-> "buildable",
         yes |-> "Buildable", no |-> "Not Buildable",
         none_test |-> TRUE],
       [column |-> "Default", attribute |-> "default",
         yes |-> "Default", no |-> "Not Default",
         none_test |-> FALSE],
       [column |-> "Levy", attribute |-> "levy",
         yes |-> "Levy", no |-> "Not Levy",
         none_test |-> FALSE],
       [column |-> "Use Ship Names", attribute |-> "use_ship_names",
         yes |-> "Use Ship Names", no |-> "Not Use Ship Names",
         none_test |-> TRUE] >>

\* the boolean columns of generate_wargoals_table: the label of the column, the attribute it
\* shows, the texts in its Yes and No markup, whether it tests for None
generate_wargoals_table_columns ==
    << [column |-> "War Name Is Country Order Agnostic", attribute |-> "war_name_is_country_order_agnostic",
         yes |-> "War Name Is Country Order Agnostic", no |-> "Not War Name Is Country Order Agnostic",
         none_test |-> FALSE] >>

(* ------------------------------- inputs -------------------------------- *)

\* the boolean columns of every table function
boolean_columns ==
    ("get_law_data" :> get_law_data_columns)
    @@ ("get_law_policy_table" :> get_law_policy_table_columns)
    @@ ("generate_advances_table" :> generate_advances_table_columns)
    @@ ("generate_cabinet_actions_table" :> generate_cabinet_actions_table_columns)
    @@ ("generate_casus_belli_table" :> generate_casus_belli_table_columns)
    @@ ("generate_cultures_table" :> generate_cultures_table_columns)
    @@ ("generate_languages_table" :> generate_languages_table_columns)
    @@ ("generate_peace_treaties_table" :> generate_peace_treaties_table_columns)
    @@ ("generate_religions_table" :> generate_religions_table_columns)
    @@ ("generate_subject_types_table" :> generate_subject_types_table_columns)
    @@ ("generate_unit_types_table" :> generate_unit_types_table_columns)
    @@ ("generate_wargoals_table" :> generate_wargoals_table_columns)

boolean_values == { none_value, bool_value(TRUE), bool_value(FALSE) }

\* an entity of the table: one boolean attribute holds one value, all the
\* others of the table another
entity_with(columns, attribute, value, others) ==
    [ a \in { columns[i].attribute : i \in 1..Len(columns) } |->
        IF a = attribute THEN value ELSE others ]

(* ---------------------------- state machine --------------------------- *)

InitBooleans ==
    /\ \E function \in DOMAIN boolean_columns :
          \E i \in 1..Len(boolean_columns[function]) :
              \E value \in boolean_values, others \in boolean_values :
                  /\ collection = function
                  /\ arg = entity_with(boolean_columns[function],
                               boolean_columns[function][i].attribute, value, others)
    /\ pc = "start"
    /\ country = None
    /\ parser = None
    /\ provinces = {}
    /\ rank_key = "unset"
    /\ notes = << >>
    /\ raised = "none"
    /\ returned = None

GetLawData ==
    /\ pc = "start"
    /\ collection = "get_law_data"
    /\ returned' = boolean_cells(get_law_data_columns, arg)
    /\ pc' = "get_law_data"
    /\ UNCHANGED <<country, parser, provinces, rank_key, notes, raised, arg,
                   collection>>

GetLawPolicyTable ==
    /\ pc = "start"
    /\ collection = "get_law_policy_table"
    /\ returned' = boolean_cells(get_law_policy_table_columns, arg)
    /\ pc' = "get_law_policy_table"
    /\ UNCHANGED <<country, parser, provinces, rank_key, notes, raised, arg,
                   collection>>

GenerateAdvancesTable ==
    /\ pc = "start"
    /\ collection = "generate_advances_table"
    /\ returned' = boolean_cells(generate_advances_table_columns, arg)
    /\ pc' = "generate_advances_table"
    /\ UNCHANGED <<country, parser, provinces, rank_key, notes, raised, arg,
                   collection>>

GenerateCabinetActionsTable ==
    /\ pc = "start"
    /\ collection = "generate_cabinet_actions_table"
    /\ returned' = boolean_cells(generate_cabinet_actions_table_columns, arg)
    /\ pc' = "generate_cabinet_actions_table"
    /\ UNCHANGED <<country, parser, provinces, rank_key, notes, raised, arg,
                   collection>>

GenerateCasusBelliTable ==
    /\ pc = "start"
    /\ collection = "generate_casus_belli_table"
    /\ returned' = boolean_cells(generate_casus_belli_table_columns, arg)
    /\ pc' = "generate_casus_belli_table"
    /\ UNCHANGED <<country, parser, provinces, rank_key, notes, raised, arg,
                   collection>>

GenerateCulturesTable ==
    /\ pc = "start"
    /\ collection = "generate_cultures_table"
    /\ returned' = boolean_cells(generate_cultures_table_columns, arg)
    /\ pc' = "generate_cultures_table"
    /\ UNCHANGED <<country, parser, provinces, rank_key, notes, raised, arg,
                   collection>>

GenerateLanguagesTable ==
    /\ pc = "start"
    /\ collection = "generate_languages_table"
    /\ returned' = boolean_cells(generate_languages_table_columns, arg)
    /\ pc' = "generate_languages_table"
    /\ UNCHANGED <<country, parser, provinces, rank_key, notes, raised, arg,
                   collection>>

GeneratePeaceTreatiesTable ==
    /\ pc = "start"
    /\ collection = "generate_peace_treaties_table"
    /\ returned' = boolean_cells(generate_peace_treaties_table_columns, arg)
    /\ pc' = "generate_peace_treaties_table"
    /\ UNCHANGED <<country, parser, provinces, rank_key, notes, raised, arg,
                   collection>>

GenerateReligionsTable ==
    /\ pc = "start"
    /\ collection = "generate_religions_table"
    /\ returned' = boolean_cells(generate_religions_table_columns, arg)
    /\ pc' = "generate_religions_table"
    /\ UNCHANGED <<country, parser, provinces, rank_key, notes, raised, arg,
                   collection>>

GenerateSubjectTypesTable ==
    /\ pc = "start"
    /\ collection = "generate_subject_types_table"
    /\ returned' = boolean_cells(generate_subject_types_table_columns, arg)
    /\ pc' = "generate_subject_types_table"
    /\ UNCHANGED <<country, parser, provinces, rank_key, notes, raised, arg,
                   collection>>

GenerateUnitTypesTable ==
    /\ pc = "start"
    /\ collection = "generate_unit_types_table"
    /\ returned' = boolean_cells(generate_unit_types_table_columns, arg)
    /\ pc' = "generate_unit_types_table"
    /\ UNCHANGED <<country, parser, provinces, rank_key, notes, raised, arg,
                   collection>>

GenerateWargoalsTable ==
    /\ pc = "start"
    /\ collection = "generate_wargoals_table"
    /\ returned' = boolean_cells(generate_wargoals_table_columns, arg)
    /\ pc' = "generate_wargoals_table"
    /\ UNCHANGED <<country, parser, provinces, rank_key, notes, raised, arg,
                   collection>>

NextBooleans ==
    \/ GetLawData
    \/ GetLawPolicyTable
    \/ GenerateAdvancesTable
    \/ GenerateCabinetActionsTable
    \/ GenerateCasusBelliTable
    \/ GenerateCulturesTable
    \/ GenerateLanguagesTable
    \/ GeneratePeaceTreatiesTable
    \/ GenerateReligionsTable
    \/ GenerateSubjectTypesTable
    \/ GenerateUnitTypesTable
    \/ GenerateWargoalsTable

SpecBooleans == InitBooleans /\ [][NextBooleans]_vars

(* ------------------------ properties: boolean columns ------------------ *)

\* a law or law-policy row has been produced
LawRowProduced == pc \in {"get_law_data", "get_law_policy_table"}

\* a row of one of the other tables has been produced
OtherRowProduced == pc \notin {"start", "get_law_data", "get_law_policy_table"}

\* the columns of the table function that ran
ColumnsOfRow == boolean_columns[collection]

\* the cell the three-valued contract gives a column: nothing for None, the
\* Yes markup with the label of the column for True, the No markup with
\* 'Not ' and the label for False
TriStateCell(column) ==
    IF arg[column.attribute] = none_value THEN << >>
    ELSE IF arg[column.attribute] = bool_value(TRUE)
         THEN << "[[File:Yes.png|20px|", column.column, "]]" >>
         ELSE << "[[File:No.png|20px|", "Not " \o column.column, "]]" >>

\* C21: in the law table and the law-policy table every boolean column is
\* tri-state: None gives the empty cell, True the Yes markup with the label
\* of the column, False the No markup with 'Not ' and the label; None is
\* never rendered as the No markup.
C21_LawBooleansTriState ==
    LawRowProduced =>
        \A i \in 1..Len(ColumnsOfRow) :
            returned[ColumnsOfRow[i].column] = TriStateCell(ColumnsOfRow[i])

\* a law policy whose 'Gold' is None beside columns that are False
C21_Witness ==
    /\ pc = "get_law_policy_table"
    /\ arg["gold"] = none_value
    /\ arg["manpower"] = bool_value(FALSE)
    /\ returned["Gold"] = << >>
    /\ returned["Manpower"] = << "[[File:No.png|20px|", "Not Manpower", "]]" >>

\* C22: in every other table a boolean attribute that is None gives an empty
\* cell, which is not the No markup a False gives.
C22_NoneIsEmptyEverywhere ==
    OtherRowProduced =>
        \A i \in 1..Len(ColumnsOfRow) :
            arg[ColumnsOfRow[i].attribute] = none_value
                => returned[ColumnsOfRow[i].column] = << >>

(* ========================= concept sections ============================ *)

\* how often a section is produced for the same concept and data
MaxCalls == 2

\* str(concept): the text of the concept, made outside this file
str_of(concept) == [str |-> concept.name]

\* self.formatter.format_localization_text(text, all_concept_names): made
\* outside this file; a function of its two arguments
format_localization_text(text, all_concept_names) ==
    [formatted |-> text, all_concept_names |-> all_concept_names]

\* separator.join(items)
join(separator, items) == [join |-> separator, items |-> items]

\* [alias.display_name for alias in concept.alias]
alias_display_names_of(concept) ==
    [ i \in 1..Len(concept.alias) |-> concept.alias[i].display_name ]

\* the formatted display names of the aliases, joined with ', ', and their anchors
aliases_text(all_concept_names, names) ==
    << join(", ", [ i \in 1..Len(names) |->
                      format_localization_text(names[i], all_concept_names) ]),
       "{{anchor|", join("}}{{anchor|", names), "}}" >>

get_concept_section_contents(all_concept_names, concept) ==
    format_localization_text(concept.description, all_concept_names)

\* the section whose closing marker is named by the display name
concept_section_closed_by_display_name(all_concept_names, concept, contents_of) ==
    << "<section begin=", "autogenerated_concept_" \o concept.name, "/>",
       get_concept_section_contents(all_concept_names, contents_of),
       "<section end=", "autogenerated_concept_" \o concept.display_name, "/>" >>

\* f'<section begin=autogenerated_concept_{concept.name}/>{contents}
\*   <section end=autogenerated_concept_{concept.name}/>', the contents being
\* those of contents_of (the concept itself, or its Russian counterpart)
concept_section(all_concept_names, concept, contents_of) ==
    << "<section begin=", "autogenerated_concept_" \o concept.name, "/>",
       get_concept_section_contents(all_concept_names, contents_of),
       "<section end=", "autogenerated_concept_" \o concept.name, "/>" >>

\* the lines of the section of one concept: heading, hatnote of the aliases
\* when there are aliases, the marked section
get_concept_section(all_concept_names, concept) ==
    << << "=== ", str_of(concept), " ===" >> >>
    \o (IF Len(concept.alias) > 0
        THEN << << "{{hatnote|Aliases: " >>
                \o aliases_text(all_concept_names, alias_display_names_of(concept))
                \o << "}}" >> >>
        ELSE << >>)
    \o << concept_section(all_concept_names, concept, concept) >>

\* the table row of one concept and its Russian counterpart
get_concept_section_russian(all_concept_names, concept, ru_concept) ==
    [ Concept |-> concept.display_name,
      Aliases |-> IF Len(concept.alias) > 0
                  THEN aliases_text(all_concept_names, alias_display_names_of(concept))
                  ELSE << >>,
      Text |-> get_concept_section_contents(all_concept_names, concept),
      RU_Concept |-> ru_concept.display_name,
      RU_Aliases |-> IF Len(concept.alias) > 0
                     THEN aliases_text(all_concept_names, alias_display_names_of(ru_concept))
                     ELSE << >>,
      RU_Text |-> concept_section(all_concept_names, concept, ru_concept) ]

(* ------------------------------- inputs -------------------------------- *)

concept_names == { "army", "trade_route" }

alias_lists ==
    { << >>, << [display_name |-> "Armies"] >>,
      << [display_name |-> "Armies"], [display_name |-> "Land Forces"] >> }

ru_alias_lists ==
    { << >>, << [display_name |-> "Armii"] >>,
      << [display_name |-> "Armii"], [display_name |-> "Voyska"] >> }

descriptions == { "", "An [army] moves between locations", "text of +1 kind" }

\* a concept of the English data
game_concept(name, alias, description) ==
    [ name |-> name,
      display_name |-> IF name = "army" THEN "Army" ELSE "Trade Route",
      alias |-> alias,
      description |-> description ]

\* its counterpart of the Russian data: the same name and number of aliases
ru_game_concept(concept, description) ==
    [ name |-> concept.name,
      display_name |-> IF concept.name = "army" THEN "Armiya" ELSE "Torgovyy put",
      alias |-> CHOOSE list \in ru_alias_lists : Len(list) = Len(concept.alias),
      description |-> description ]

(* ---------------------------- state machine --------------------------- *)

InitConcepts ==
    /\ \E name \in concept_names, alias \in alias_lists,
          description \in descriptions, ru_description \in descriptions :
          LET concept == game_concept(name, alias, description) IN
          arg = [ all_concept_names |-> << "army", "trade_route", "Army", "Trade Route" >>,
                  concept |-> concept,
                  ru_concept |-> ru_game_concept(concept, ru_description) ]
    /\ pc = "start"
    /\ country = None
    /\ parser = None
    /\ provinces = {}
    /\ rank_key = "unset"
    /\ notes = << >>
    /\ raised = "none"
    /\ collection = << >>
    /\ returned = None

\* one more call with the same concept and data; the sections produced so
\* far are kept in collection
GetConceptSection ==
    /\ Len(collection) < MaxCalls
    /\ LET lines == get_concept_section(arg.all_concept_names, arg.concept) IN
         /\ returned' = lines
         /\ collection' = Append(collection,
                [function |-> "get_concept_section", section |-> lines[Len(lines)]])
    /\ pc' = "get_concept_section"
    /\ UNCHANGED <<country, parser, provinces, rank_key, notes, raised, arg>>

GetConceptSectionRussian ==
    /\ Len(collection) < MaxCalls
    /\ LET row == get_concept_section_russian(arg.all_concept_names, arg.concept,
                                              arg.ru_concept) IN
         /\ returned' = row
         /\ collection' = Append(collection,
                [function |-> "get_concept_section_russian", section |-> row.RU_Text])
    /\ pc' = "get_concept_section_russian"
    /\ UNCHANGED <<country, parser, provinces, rank_key, notes, raised, arg>>

NextConcepts == GetConceptSection \/ GetConceptSectionRussian

SpecConcepts == InitConcepts /\ [][NextConcepts]_vars

(* ------------------------ properties: concept sections ----------------- *)

\* the key every section of the concept is to carry
ConceptKey == "autogenerated_concept_" \o arg.concept.name

\* the section is the opening marker, a body, and the closing marker, both
\* markers naming the key of the concept
MarkedByConceptKey(section) ==
    /\ Len(section) = 7
    /\ section[1] = "<section begin=" /\ section[2] = ConceptKey /\ section[3] = "/>"
    /\ section[5] = "<section end=" /\ section[6] = ConceptKey /\ section[7] = "/>"

\* the body of the section: the formatted description of the concept, or of
\* its Russian counterpart in the Russian table
BodyOf(call) ==
    format_localization_text(
        IF call.function = "get_concept_section" THEN arg.concept.description
        ELSE arg.ru_concept.description, arg.all_concept_names)

\* C23: the section of a concept, of get_concept_section and of
\* get_concept_section_russian, opens and closes with the key
\* 'autogenerated_concept_<concept name>', has its body between the two
\* markers, and is the same string every time it is produced for the same
\* concept and data.
C23_ConceptSectionMarked ==
    \A i \in 1..Len(collection) :
        /\ MarkedByConceptKey(collection[i].section)
        /\ collection[i].section[4] = BodyOf(collection[i])
        /\ \A j \in 1..Len(collection) :
               collection[j].function = collection[i].function
                   => collection[j].section = collection[i].section

\* the section of a concept with aliases has been produced twice
C23_Witness ==
    /\ Len(collection) = 2
    /\ collection[1].function = collection[2].function
    /\ collection[1].function = "get_concept_section_russian"
    /\ Len(arg.concept.alias) = 2
    /\ arg.concept.description # arg.ru_concept.description
    /\ returned.RU_Text[2] = "autogenerated_concept_army"

(* ============================ goods sections =========================== *)

\* the largest number of goods of the parser
MaxGoods == 2

\* the members of GoodCategory in the order of their definition, each as the
\* text f'{category}' gives
GoodCategory == << "raw_material", "food", "produced" >>

\* str.title() of the keys of the goods sections
title(s) ==
    CASE s = "raw_material" -> "Raw_Material"
      [] s = "raw_material_special" -> "Raw_Material_Special"
      [] s = "food" -> "Food"
      [] s = "food_special" -> "Food_Special"
      [] s = "produced" -> "Produced"
      [] s = "produced_special" -> "Produced_Special"
      [] OTHER -> s

\* section.endswith('_food')
endswith_food(section) ==
    section \in { GoodCategory[c] \o "_food" : c \in 1..Len(GoodCategory) }

\* get_goods_tables() where a produced good with a method is left among the
\* goods of its category as well
get_goods_tables_special_kept(goods) ==
    LET in_category(category) ==
            LET of_category(gd) == gd.category = category
            IN SelectSeq(goods, of_category)
        with_method(gd) == gd.method # ""
        no_food(gd) == gd.food = 0
        some_food(gd) == gd.food > 0
        special_goods(category) ==
            IF category = "produced"
            THEN SelectSeq(in_category(category), with_method) ELSE << >>
        tables_of(category) ==
            << [key |-> category,
                table |-> get_goods_table(SelectSeq(in_category(category), no_food))],
               [key |-> category \o "_food",
                table |-> get_goods_table(SelectSeq(in_category(category), some_food))],
               [key |-> category \o "_special",
                table |-> get_goods_table(special_goods(category))] >>
    IN dict_of(concat([ c \in 1..Len(GoodCategory) |-> tables_of(GoodCategory[c]) ]))

\* get_goods_tables(): the dict result as its items
get_goods_tables(goods) ==
    LET in_category(category) ==
            LET of_category(gd) == gd.category = category
            IN SelectSeq(goods, of_category)
        with_method(gd) == gd.method # ""
        without_method(gd) == gd.method = ""
        no_food(gd) == gd.food = 0
        some_food(gd) == gd.food > 0
        special_goods(category) ==
            IF category = "produced"
            THEN SelectSeq(in_category(category), with_method) ELSE << >>
        goods_in_category(category) ==
            IF category = "produced"
            THEN SelectSeq(in_category(category), without_method)
            ELSE in_category(category)
        tables_of(category) ==
            << [key |-> category,
                table |-> get_goods_table(SelectSeq(goods_in_category(category), no_food))],
               [key |-> category \o "_food",
                table |-> get_goods_table(SelectSeq(goods_in_category(category), some_food))],
               [key |-> category \o "_special",
                table |-> get_goods_table(special_goods(category))] >>
    IN dict_of(concat([ c \in 1..Len(GoodCategory) |-> tables_of(GoodCategory[c]) ]))

\* generate_goods_tables() without the test of the table
generate_goods_tables_with_empty(goods) ==
    LET tables == get_goods_tables(goods)
    IN concat([ i \in 1..Len(tables) |->
                  << [heading |-> IF endswith_food(tables[i].key)
                                  THEN << "==== Food ====" >>
                                  ELSE << "=== ", title(localize(tables[i].key, tables[i].key)),
                                          " ===" >>],
                     [section |-> tables[i].key, content |-> tables[i].table] >> ])

\* generate_goods_tables(): the list result; a section whose table is ''
\* is passed over, a section is the table between the markers of its key
generate_goods_tables(goods) ==
    LET tables == get_goods_tables(goods)
    IN concat([ i \in 1..Len(tables) |->
                  IF tables[i].table = << >> THEN << >>
                  ELSE << [heading |-> IF endswith_food(tables[i].key)
                                       THEN << "==== Food ====" >>
                                       ELSE << "=== ", title(localize(tables[i].key, tables[i].key)),
                                               " ===" >>],
                          [section |-> tables[i].key, content |-> tables[i].table] >> ])

(* ------------------------------- inputs -------------------------------- *)

\* what one good is made of: its category, its method ('' for none), its
\* food, its name
category_good_choices ==
    [category : { GoodCategory[c] : c \in 1..Len(GoodCategory) },
     method : {"", "farming"}, food : {0, 2}, display_name : {"Armory", "Bank"}]

category_good(i, choice) ==
    [name |-> "good_" \o ToString(i), display_name |-> choice.display_name,
     category |-> choice.category, method |-> choice.method, food |-> choice.food]

(* ---------------------------- state machine --------------------------- *)

\* the values() of parser.goods, in the order of the dict
InitGoods ==
    /\ \E n \in 0..MaxGoods : \E choice \in [1..n -> category_good_choices] :
            collection = [kind |-> "goods",
                          items |-> [i \in 1..n |-> category_good(i, choice[i])]]
    /\ pc = "start"
    /\ country = None
    /\ parser = None
    /\ provinces = {}
    /\ rank_key = "unset"
    /\ notes = << >>
    /\ raised = "none"
    /\ arg = None
    /\ returned = None

GetGoodsTables ==
    /\ pc = "start"
    /\ collection.kind = "goods"
    /\ returned' = get_goods_tables(collection.items)
    /\ pc' = "get_goods_tables"
    /\ UNCHANGED <<country, parser, provinces, rank_key, notes, raised, arg,
                   collection>>

GenerateGoodsTables ==
    /\ pc = "start"
    /\ collection.kind = "goods"
    /\ returned' = generate_goods_tables(collection.items)
    /\ pc' = "generate_goods_tables"
    /\ UNCHANGED <<country, parser, provinces, rank_key, notes, raised, arg,
                   collection>>

NextGoods ==
    \/ GetGoodsTable
    \/ GetGoodsTables
    \/ GenerateGoodsTables

SpecGoods == InitGoods /\ [][NextGoods]_vars

(* ------------------------- properties: goods sections ------------------ *)

\* the keys of the sections get_goods_tables would give whose table is ''
EmptySections ==
    LET tables == get_goods_tables(collection.items)
    IN { tables[i].key : i \in { j \in 1..Len(tables) : tables[j].table = << >> } }

\* the keys of the sections generate_goods_tables has emitted
EmittedSections ==
    { returned[i].section :
        i \in { j \in 1..Len(returned) : "section" \in DOMAIN returned[j] } }

\* C24: get_goods_table gives '' for an empty sequence of goods, and
\* generate_goods_tables emits neither a heading nor section markers for a
\* goods section whose table is empty: each heading it emits is followed by
\* the section of a table with rows.
C24_EmptyGoodsSectionSkipped ==
    /\ (pc = "get_goods_table" /\ collection.items = << >>) => returned = << >>
    /\ pc = "generate_goods_tables" =>
          /\ EmittedSections \cap EmptySections = {}
          /\ Len(returned) = 2 * Cardinality(EmittedSections)
          /\ \A i \in 1..Len(returned) :
                IF i % 2 = 1 THEN "heading" \in DOMAIN returned[i]
                ELSE "section" \in DOMAIN returned[i] /\ returned[i].content # << >>

\* one good: eight of the nine sections are empty and only one is emitted
C24_Witness ==
    /\ pc = "generate_goods_tables"
    /\ Len(collection.items) = 1
    /\ Cardinality(EmptySections) = 8
    /\ Len(returned) = 2
    /\ returned[1].heading = << "==== Food ====" >>

\* the goods of parser.goods
Goods == { collection.items[i] : i \in 1..Len(collection.items) }

\* the keys of the sections whose table has a row of the good
SectionsOf(gd) ==
    { returned[i].key :
        i \in { j \in 1..Len(returned) :
                  \E r \in 1..Len(returned[j].table) :
                      returned[j].table[r].name = gd.name } }

\* the one section the good belongs to
SectionFor(gd) ==
    IF gd.category = "produced" /\ gd.method # "" THEN gd.category \o "_special"
    ELSE IF gd.food = 0 THEN gd.category
    ELSE gd.category \o "_food"

\* C28: get_goods_tables puts every good into exactly one of the three
\* sections of its category: a produced good with a method into the special
\* section only, any other good into the plain section when its food is 0
\* and into the food section when its food is above 0; no good is dropped or
\* listed twice, and the special section of the other categories is empty.
C28_EveryGoodInOneSection ==
    pc = "get_goods_tables" =>
        /\ \A gd \in Goods :
              /\ SectionsOf(gd) = { SectionFor(gd) }
              /\ \A i \in 1..Len(returned) :
                    Cardinality({ r \in 1..Len(returned[i].table) :
                                    returned[i].table[r].name = gd.name }) <= 1
        /\ \A i \in 1..Len(returned) :
              returned[i].key \in { "raw_material_special", "food_special" }
                  => returned[i].table = << >>
        /\ { returned[i].key : i \in 1..Len(returned) } =
              UNION { { GoodCategory[c], GoodCategory[c] \o "_food",
                        GoodCategory[c] \o "_special" } : c \in 1..Len(GoodCategory) }

\* a produced good with a method that also feeds beside a raw material with
\* a method
C28_Witness ==
    /\ pc = "get_goods_tables"
    /\ \E gd \in Goods :
          /\ gd.category = "produced" /\ gd.method # "" /\ gd.food > 0
          /\ SectionsOf(gd) = { "produced_special" }
    /\ \E gd \in Goods :
          /\ gd.category = "raw_material" /\ gd.method # "" /\ gd.food = 0
          /\ SectionsOf(gd) = { "raw_material" }

(* ============================== format_pms ============================= *)

\* the largest number of lists of unique production methods of a building
MaxPmLists == 2

\* pm.format(icon_only=True): made outside this file; a list with the icon
\* of the method
pm_format(pm) == << << "{{icon|", pm, "}}" >> >>

\* the cell made of the lists of production methods: one wiki list per list,
\* the lists joined with '\n----\n'
formatted_pm_cell(pm_lists) ==
    join("\n----\n",
         [ i \in 1..Len(pm_lists) |->
             create_wiki_list(concat([ k \in 1..Len(pm_lists[i]) |->
                                         pm_format(pm_lists[i][k]) ])) ])

\* format_pms with pm_lists the list of the building itself, not a copy of it
format_pms_without_copy(bld) ==
    LET pm_lists == IF Len(bld.possible_production_methods) > 0
                    THEN Append(bld.unique_production_methods,
                                bld.possible_production_methods)
                    ELSE bld.unique_production_methods
    IN [ building |-> [bld EXCEPT !.unique_production_methods = pm_lists],
         returned |-> formatted_pm_cell(pm_lists) ]

\* format_pms(building): the cell returned, and the building as the call
\* leaves it. pm_lists is a copy of building.unique_production_methods, so
\* the append of the possible methods changes the copy alone; the lists in
\* it are only read.
format_pms(bld) ==
    LET pm_lists == IF Len(bld.possible_production_methods) > 0
                    THEN Append(bld.unique_production_methods,
                                bld.possible_production_methods)
                    ELSE bld.unique_production_methods
    IN [ building |-> bld,
         returned |-> formatted_pm_cell(pm_lists) ]

(* ------------------------------- inputs -------------------------------- *)

\* the lists of production methods a building may hold
pm_list_choices == { << "pm_iron" >>, << "pm_tools", "pm_iron" >> }

possible_pm_choices == { << >> } \cup pm_list_choices

pm_building_names == { "armory", "bank", "smithy", "dock", "mill" }

(* ---------------------------- state machine --------------------------- *)

InitPms ==
    /\ \E name \in pm_building_names, n \in 0..MaxPmLists :
          \E unique \in [1..n -> pm_list_choices], possible \in possible_pm_choices :
              arg = [ name |-> name,
                      unique_production_methods |-> unique,
                      possible_production_methods |-> possible ]
    /\ pc = "start"
    /\ country = None
    /\ parser = None
    /\ provinces = {}
    /\ rank_key = "unset"
    /\ notes = << >>
    /\ raised = "none"
    /\ collection = << >>
    /\ returned = None

\* one more rendering of the same building; the cells rendered so far are
\* kept in collection
FormatPms ==
    /\ Len(collection) < MaxCalls
    /\ LET call == format_pms(arg) IN
         /\ arg' = call.building
         /\ returned' = call.returned
         /\ collection' = Append(collection, call.returned)
    /\ pc' = "format_pms"
    /\ UNCHANGED <<country, parser, provinces, rank_key, notes, raised>>

NextPms == FormatPms

SpecPms == InitPms /\ [][NextPms]_vars

(* --------------------------- properties: format_pms -------------------- *)

\* the groups the cell of the building is to have: one per list of unique
\* methods, and one for the possible methods when there are any
GroupsOf(bld) ==
    Len(bld.unique_production_methods)
        + (IF Len(bld.possible_production_methods) > 0 THEN 1 ELSE 0)

\* every cell rendered so far is the same cell, with the groups of the building
SameCellEveryTime ==
    \A i \in 1..Len(collection) :
        /\ collection[i] = collection[1]
        /\ Len(collection[i].items) = GroupsOf(arg)

\* C25: format_pms leaves the building as it was: its
\* unique_production_methods and possible_production_methods hold the lists
\* they held before the call, so every rendering of the same building gives
\* the same cell with the same number of groups.
C25_FormatPmsLeavesBuilding == []SameCellEveryTime /\ [][arg' = arg]_vars

\* a building with a list of unique methods and possible methods, rendered twice
C25_Witness ==
    /\ pc = "format_pms"
    /\ Len(collection) = 2
    /\ Len(arg.unique_production_methods) = 1
    /\ Len(arg.possible_production_methods) = 2
    /\ Len(returned.items) = 2

(* ------------- properties: the empty cell of _format_time_to_implement ---- *)

\* the normalized duration is the default of 2 years and nothing else
NormalizedIsDefault ==
    Normalized = [years |-> ignore_default_years, months |-> 0, weeks |-> 0, days |-> 0]

\* the four units of the normalized duration are zero
NormalizedIsZero ==
    Normalized = [years |-> 0, months |-> 0, weeks |-> 0, days |-> 0]

\* C26: for durations that are not negative and the default of 2 years,
\* _format_time_to_implement returns '' exactly when the normalized duration
\* is 2 years, 0 months, 0 weeks and 0 days, or when its four units are all
\* zero; the test is made after the carry, so 1 year and 365 days, or 24
\* months, give '' as well.
C26_EmptyExactlyForDefaultOrZero ==
    TimeFormatted => (returned.lines = << >> <=> (NormalizedIsDefault \/ NormalizedIsZero))

\* 1 year and 365 days carry to the default and give ''
C26_Witness ==
    /\ TimeFormatted
    /\ arg = [years |-> 1, months |-> 0, weeks |-> 0, days |-> 365]
    /\ NormalizedIsDefault
    /\ returned.lines = << >>

(* ======================== _filter_has_or_had_tag ======================= *)

\* the deepest nesting of trees in the trigger tree
MaxTreeDepth == 2

\* the values of a trigger tree: a scalar, a Tree with its (key, value)
\* entries in the order of iteration, a list with its items
scalar_value(s) == [type |-> "str", value |-> s]

tree_value(entries) == [type |-> "Tree", items |-> entries]

list_value(items) == [type |-> "list", items |-> items]

\* isinstance(value, Tree)
isinstance_Tree(value) == value.type = "Tree"

\* bool(result) of what the finder returns: None, a str or a list of str
truthy_result(result) ==
    /\ result.has
    /\ IF result.value.type = "str" THEN result.value.value # ""
       ELSE Len(result.value.items) > 0

\* the test that keeps every filtered subtree, the empty one as well
kept_always(filtered_value) == TRUE

\* filtered_value and len(filtered_value) > 0
kept_when_filled(filtered_value) == Len(filtered_value.items) > 0

RECURSIVE _find_has_or_had_tag_in_trigger(_)
RECURSIVE find_in_entries(_)
RECURSIVE find_in_list(_)
\* the loop over the items of a list value: the first truthy result of an
\* item that is a Tree
find_in_list(items) ==
    IF items = << >> THEN absent
    ELSE LET result == IF isinstance_Tree(Head(items))
                       THEN _find_has_or_had_tag_in_trigger(Head(items))
                       ELSE absent
         IN IF truthy_result(result) THEN result ELSE find_in_list(Tail(items))

\* the loop over the entries of the tree
find_in_entries(entries) ==
    IF entries = << >> THEN absent
    ELSE LET entry == Head(entries) IN
         IF entry.key = "has_or_had_tag" THEN present(entry.value)
         ELSE LET result ==
                     IF isinstance_Tree(entry.value)
                     THEN _find_has_or_had_tag_in_trigger(entry.value)
                     ELSE IF entry.value.type = "list"
                     THEN find_in_list(entry.value.items)
                     ELSE absent
              IN IF truthy_result(result) THEN result
                 ELSE find_in_entries(Tail(entries))

\* _find_has_or_had_tag_in_trigger(trigger_tree): the value found, or None
_find_has_or_had_tag_in_trigger(trigger_tree) ==
    IF ~isinstance_Tree(trigger_tree) THEN absent
    ELSE find_in_entries(trigger_tree.items)

RECURSIVE _filter_has_or_had_tag(_)
RECURSIVE filter_entries(_)
RECURSIVE filter_list(_)
\* filtered_list: the items that are no Tree, and the filtered items that
\* are a Tree and have an entry left
filter_list(items) ==
    IF items = << >> THEN << >>
    ELSE LET item == Head(items) IN
         IF isinstance_Tree(item)
         THEN LET filtered_item == _filter_has_or_had_tag(item) IN
              (IF kept_when_filled(filtered_item) THEN << filtered_item >> ELSE << >>)
                  \o filter_list(Tail(items))
         ELSE << item >> \o filter_list(Tail(items))

\* the entries of filtered after the loop over the entries of the tree
filter_entries(entries) ==
    IF entries = << >> THEN << >>
    ELSE LET entry == Head(entries)
             rest == filter_entries(Tail(entries))
         IN
         IF entry.key = "has_or_had_tag" THEN rest
         ELSE IF isinstance_Tree(entry.value)
         THEN LET filtered_value == _filter_has_or_had_tag(entry.value) IN
              IF kept_when_filled(filtered_value)
              THEN << [key |-> entry.key, value |-> filtered_value] >> \o rest
              ELSE rest
         ELSE IF entry.value.type = "list"
         THEN LET filtered_list == filter_list(entry.value.items) IN
              IF Len(filtered_list) > 0
              THEN << [key |-> entry.key, value |-> list_value(filtered_list)] >> \o rest
              ELSE rest
         ELSE << entry >> \o rest

\* _filter_has_or_had_tag(trigger_tree): a new Tree, or the argument itself
\* when it is no Tree
_filter_has_or_had_tag(trigger_tree) ==
    IF ~isinstance_Tree(trigger_tree) THEN trigger_tree
    ELSE tree_value(filter_entries(trigger_tree.items))

(* ------------------------------- inputs -------------------------------- *)

trigger_scalars == { scalar_value("FRA") }

\* a Tree with or without a has_or_had_tag entry, with or without a scalar
\* entry, with or without an entry of one more value; its keys are distinct
trigger_tree_of(tag, scalar, nested) ==
    tree_value(
        (IF scalar THEN << [key |-> "is_subject", value |-> scalar_value("yes")] >>
         ELSE << >>)
        \o (IF nested.has THEN << [key |-> "OR", value |-> nested.value] >> ELSE << >>)
        \o (IF tag THEN << [key |-> "has_or_had_tag", value |-> scalar_value("FRA")] >>
            ELSE << >>))

RECURSIVE trigger_trees(_)
RECURSIVE trigger_values(_)
\* the values of an entry of a tree of the depth: a scalar, a shallower
\* tree, a list of at most two items of which the first is any scalar or
\* shallower tree
trigger_values(depth) ==
    IF depth = 0 THEN trigger_scalars
    ELSE LET items == trigger_scalars \cup trigger_trees(depth - 1)
             seconds == { scalar_value("FRA"),
                          trigger_tree_of(TRUE, FALSE, absent),
                          trigger_tree_of(TRUE, TRUE, absent) }
         IN items
            \cup { list_value(<< >>) }
            \cup { list_value(<< item >>) : item \in items }
            \cup { list_value(<< item, second >>) : item \in items, second \in seconds }

\* the trees of at most the depth
trigger_trees(depth) ==
    { trigger_tree_of(tag, scalar, nested) :
        tag \in BOOLEAN, scalar \in BOOLEAN,
        nested \in { absent } \cup { present(value) : value \in trigger_values(depth) } }

(* ---------------------------- state machine --------------------------- *)

InitTrigger ==
    /\ arg \in trigger_trees(MaxTreeDepth) \cup trigger_scalars
    /\ pc = "start"
    /\ country = None
    /\ parser = None
    /\ provinces = {}
    /\ rank_key = "unset"
    /\ notes = << >>
    /\ raised = "none"
    /\ collection = << >>
    /\ returned = None

FilterHasOrHadTag ==
    /\ pc = "start"
    /\ returned' = _filter_has_or_had_tag(arg)
    /\ pc' = "_filter_has_or_had_tag"
    /\ UNCHANGED <<country, parser, provinces, rank_key, notes, raised, arg,
                   collection>>

FindHasOrHadTagInTrigger ==
    /\ pc = "start"
    /\ returned' = _find_has_or_had_tag_in_trigger(arg)
    /\ pc' = "_find_has_or_had_tag_in_trigger"
    /\ UNCHANGED <<country, parser, provinces, rank_key, notes, raised, arg,
                   collection>>

NextTrigger == FilterHasOrHadTag \/ FindHasOrHadTagInTrigger

SpecTrigger == InitTrigger /\ [][NextTrigger]_vars

(* ------------------- properties: _filter_has_or_had_tag ---------------- *)

TriggerFiltered == pc = "_filter_has_or_had_tag"

RECURSIVE HasTagKey(_)
\* a has_or_had_tag key in the tree, in a tree that is the value of an
\* entry, or in a tree that is an item of a list that is such a value
HasTagKey(value) ==
    /\ value.type = "Tree"
    /\ \E i \in 1..Len(value.items) :
          LET entry == value.items[i] IN
          \/ entry.key = "has_or_had_tag"
          \/ HasTagKey(entry.value)
          \/ /\ entry.value.type = "list"
             /\ \E k \in 1..Len(entry.value.items) : HasTagKey(entry.value.items[k])

RECURSIVE HasEmptyPart(_)
\* below the tree there is a tree or a list without anything in it
HasEmptyPart(value) ==
    /\ value.type = "Tree"
    /\ \E i \in 1..Len(value.items) :
          LET inner == value.items[i].value IN
          \/ inner.type \in {"Tree", "list"} /\ Len(inner.items) = 0
          \/ HasEmptyPart(inner)
          \/ /\ inner.type = "list"
             /\ \E k \in 1..Len(inner.items) :
                   \/ inner.items[k].type = "Tree" /\ Len(inner.items[k].items) = 0
                   \/ HasEmptyPart(inner.items[k])

RECURSIVE ScalarEntries(_, _)
\* the scalar entries of the tree other than has_or_had_tag, and the scalar
\* items of its lists, each with the keys that lead to it
ScalarEntries(value, path) ==
    IF value.type # "Tree" THEN {}
    ELSE UNION { LET entry == value.items[i]
                     here == Append(path, entry.key)
                 IN IF entry.key = "has_or_had_tag" THEN {}
                    ELSE IF entry.value.type = "str" THEN { << here, entry.value.value >> }
                    ELSE IF entry.value.type = "Tree" THEN ScalarEntries(entry.value, here)
                    ELSE UNION { IF entry.value.items[k].type = "str"
                                 THEN { << here, entry.value.items[k].value >> }
                                 ELSE ScalarEntries(entry.value.items[k], here) :
                                 k \in 1..Len(entry.value.items) } :
                 i \in 1..Len(value.items) }

\* the filtered tree has no has_or_had_tag where the finder searches, keeps
\* the other scalar entries, has no empty tree or list below it, and is
\* what filtering it again gives
FilteredTree ==
    TriggerFiltered =>
        /\ ~HasTagKey(returned)
        /\ _find_has_or_had_tag_in_trigger(returned) = absent
        /\ ScalarEntries(returned, << >>) = ScalarEntries(arg, << >>)
        /\ ~HasEmptyPart(returned)
        /\ _filter_has_or_had_tag(returned) = returned

\* C27: the tree _filter_has_or_had_tag(t) returns has no 'has_or_had_tag'
\* key at any depth _find_has_or_had_tag_in_trigger searches, so that the
\* finder returns None on it; it keeps every other scalar entry, drops the
\* subtrees and lists that become empty, and filtering it again gives an
\* equal tree; t itself is not modified.
C27_FilterRemovesEveryTag == []FilteredTree /\ [][arg' = arg]_vars

\* a tag two trees deep beside a scalar that stays, and a subtree that
\* holds nothing but a tag
C27_Witness ==
    /\ TriggerFiltered
    /\ HasTagKey(arg)
    /\ _find_has_or_had_tag_in_trigger(arg) = present(scalar_value("FRA"))
    /\ arg.items[1].key = "OR"
    /\ arg.items[1].value.type = "list"
    /\ Len(arg.items[1].value.items) = 2
    /\ Len(returned.items[1].value.items) = 1
    /\ ScalarEntries(returned, << >>) # {}
    /\ returned # arg

(* ================= _generate_countries_by_region_tables ================ *)

\* the largest number of countries of the parser
MaxCountries == 2

\* the truth value of an object that may be None
truthy_object(option) == option.has

\* the continents, sub-continents and regions of the model. No name of the
\* game data is ruled out by the code, so one sub-continent outside Africa
\* bears the name 'german'.
africa_continent == [name |-> "africa", display_name |-> "Africa"]

europe_continent == [name |-> "europe", display_name |-> "Europe"]

\* the sub-continents in the order of their display names
sub_continents_by_display_name ==
    << [name |-> "east_asia", display_name |-> "East Asia", continent |-> absent],
       [name |-> "german", display_name |-> "German Lands",
        continent |-> present(europe_continent)],
       [name |-> "north_africa", display_name |-> "North Africa",
        continent |-> present(africa_continent)],
       [name |-> "west_africa", display_name |-> "West Africa",
        continent |-> present(africa_continent)],
       [name |-> "western_europe", display_name |-> "Western Europe",
        continent |-> present(europe_continent)] >>

sub_continent_named(name) ==
    LET i == CHOOSE k \in 1..Len(sub_continents_by_display_name) :
                 sub_continents_by_display_name[k].name = name
    IN sub_continents_by_display_name[i]

\* the regions in the order of their display names
regions_by_display_name ==
    << [name |-> "bohemia_region", display_name |-> "Bohemia",
        sub_continent |-> present(sub_continent_named("german"))],
       [name |-> "china_region", display_name |-> "China",
        sub_continent |-> present(sub_continent_named("east_asia"))],
       [name |-> "france_region", display_name |-> "France",
        sub_continent |-> present(sub_continent_named("western_europe"))],
       [name |-> "guinea_region", display_name |-> "Guinea",
        sub_continent |-> present(sub_continent_named("west_africa"))],
       [name |-> "japan_region", display_name |-> "Japan",
        sub_continent |-> present(sub_continent_named("east_asia"))],
       [name |-> "maghreb_region", display_name |-> "Maghreb",
        sub_continent |-> present(sub_continent_named("north_africa"))],
       [name |-> "north_german_region", display_name |-> "North Germany",
        sub_continent |-> present(sub_continent_named("western_europe"))],
       [name |-> "south_german_region", display_name |-> "South Germany",
        sub_continent |-> present(sub_continent_named("western_europe"))] >>

german_region_names == { "north_german_region", "south_german_region" }

japan_region_names == { "japan_region" }

\* country.capital and country.capital.region and
\* country.capital.region.sub_continent
has_region_and_sub_continent(c) ==
    /\ truthy_object(c.capital)
    /\ truthy_object(c.capital.value.region)
    /\ truthy_object(c.capital.value.region.value.sub_continent)

\* subcontinent_regions[subcontinent][region]: the countries of the region,
\* in the order of parser.countries
countries_of_region(countries, region) ==
    LET in_region(c) ==
            /\ has_region_and_sub_continent(c)
            /\ c.capital.value.region.value = region
    IN SelectSeq(countries, in_region)

\* sorted(subcontinent_regions[subcontinent].keys(), key=display_name)
sorted_regions_of(countries, subcontinent) ==
    LET is_key(region) ==
            /\ region.sub_continent = present(subcontinent)
            /\ countries_of_region(countries, region) # << >>
    IN SelectSeq(regions_by_display_name, is_key)

\* sorted(subcontinent_regions.keys(), key=display_name)
sorted_sub_continents(countries) ==
    LET is_key(subcontinent) == sorted_regions_of(countries, subcontinent) # << >>
    IN SelectSeq(sub_continents_by_display_name, is_key)

\* subcontinent.continent and subcontinent.continent.display_name.lower() == 'africa'
is_africa(subcontinent) ==
    /\ truthy_object(subcontinent.continent)
    /\ lower(subcontinent.continent.value.display_name) = "africa"

\* the header of the level, the table of the countries of the region sorted
\* by display name, and the blank line after it
region_section(countries, region, level) ==
    << [header |-> << level \o " ", region.display_name, " " \o level >>],
       [table |-> table_rows(sorted_by_display_name(countries_of_region(countries, region)))],
       [blank |-> TRUE] >>

\* '\n'.join(lines).rstrip(): the lines without the blank line at the end
joined_rstrip(lines) ==
    IF lines # << >> /\ "blank" \in DOMAIN lines[Len(lines)]
    THEN SubSeq(lines, 1, Len(lines) - 1) ELSE lines

\* subcontinent_lines: the sections of the regions of the sub-continent that
\* are neither German nor Japanese
subcontinent_lines(countries, subcontinent) ==
    LET regions == sorted_regions_of(countries, subcontinent)
    IN concat([ i \in 1..Len(regions) |->
                  IF regions[i].name \in german_region_names \cup japan_region_names
                  THEN << >>
                  ELSE region_section(countries, regions[i],
                                      IF is_africa(subcontinent) THEN "===" ELSE "==") ])

\* the keys of german_regions_data or japan_regions_data, sorted by display name
separated_regions(countries, names) ==
    LET separated(region) ==
            /\ region.name \in names
            /\ \E i \in 1..Len(sorted_sub_continents(countries)) :
                  region.sub_continent = present(sorted_sub_continents(countries)[i])
            /\ countries_of_region(countries, region) # << >>
    IN SelectSeq(regions_by_display_name, separated)

\* the lines of the output of the separated regions
separated_lines(countries, names) ==
    LET regions == separated_regions(countries, names)
    IN concat([ i \in 1..Len(regions) |-> region_section(countries, regions[i], "==") ])

\* the assignments to outputs in the order the function makes them: the
\* sub-continents outside Africa under their names, then 'africa', 'german'
\* and 'japan'
output_writes(countries) ==
    LET subcontinents == sorted_sub_continents(countries)
        african(subcontinent) == is_africa(subcontinent)
        other(subcontinent) == ~is_africa(subcontinent)
        africa_data == SelectSeq(subcontinents, african)
        direct == SelectSeq(subcontinents, other)
    IN [ i \in 1..Len(direct) |->
           [key |-> direct[i].name,
            lines |-> joined_rstrip(subcontinent_lines(countries, direct[i]))] ]
       \o (IF africa_data # << >>
           THEN << [key |-> "africa",
                    lines |-> joined_rstrip(concat(
                        [ i \in 1..Len(africa_data) |->
                            << [header |-> << "== ", africa_data[i].display_name, " ==" >>] >>
                            \o subcontinent_lines(countries, africa_data[i]) ])) ] >>
           ELSE << >>)
       \o (IF separated_regions(countries, german_region_names) # << >>
           THEN << [key |-> "german",
                    lines |-> joined_rstrip(separated_lines(countries, german_region_names))] >>
           ELSE << >>)
       \o (IF separated_regions(countries, japan_region_names) # << >>
           THEN << [key |-> "japan",
                    lines |-> joined_rstrip(separated_lines(countries, japan_region_names))] >>
           ELSE << >>)

\* _generate_countries_by_region_tables(): the dict outputs as its items
_generate_countries_by_region_tables(countries) == dict_of(output_writes(countries))

(* ------------------------------- inputs -------------------------------- *)

\* the capitals a country may have: none, one without a region, one whose
\* region has no sub-continent, one in a region of the model
capital_choices ==
    { absent,
      present([region |-> absent]),
      present([region |-> present([name |-> "lost_region", display_name |-> "Lost",
                                   sub_continent |-> absent])]) }
    \cup { present([region |-> present(regions_by_display_name[i])]) :
             i \in 1..Len(regions_by_display_name) }

region_country_choices == [capital : capital_choices, display_name : {"Armory", "Bank"}]

region_country(i, choice) ==
    [name |-> "country_" \o ToString(i), display_name |-> choice.display_name,
     capital |-> choice.capital]

(* ---------------------------- state machine --------------------------- *)

\* the values() of parser.countries, in the order of the dict
InitRegions ==
    /\ \E n \in 0..MaxCountries : \E choice \in [1..n -> region_country_choices] :
            collection = [kind |-> "countries",
                          items |-> [i \in 1..n |-> region_country(i, choice[i])]]
    /\ pc = "start"
    /\ country = None
    /\ parser = None
    /\ provinces = {}
    /\ rank_key = "unset"
    /\ notes = << >>
    /\ raised = "none"
    /\ arg = None
    /\ returned = None

GenerateCountriesByRegionTables ==
    /\ pc = "start"
    /\ collection.kind = "countries"
    /\ returned' = _generate_countries_by_region_tables(collection.items)
    /\ pc' = "_generate_countries_by_region_tables"
    /\ UNCHANGED <<country, parser, provinces, rank_key, notes, raised, arg,
                   collection>>

NextRegions == GenerateCountriesByRegionTables

SpecRegions == InitRegions /\ [][NextRegions]_vars

(* ------------------ properties: the outputs by region ------------------ *)

RegionTablesGenerated == pc = "_generate_countries_by_region_tables"

\* the tables that have a row of the country: the key of the output and the
\* line of the table in it
TablesOf(c) ==
    { place \in UNION { { << returned[i].key, k >> : k \in 1..Len(returned[i].lines) } :
                        i \in 1..Len(returned) } :
        \E i \in 1..Len(returned) :
            /\ returned[i].key = place[1]
            /\ "table" \in DOMAIN returned[i].lines[place[2]]
            /\ \E r \in 1..Len(returned[i].lines[place[2]].table) :
                  returned[i].lines[place[2]].table[r].name = c.name }

\* the key of the output the country is to be found in
OutputOf(c) ==
    LET region == c.capital.value.region.value
        subcontinent == region.sub_continent.value
    IN IF region.name \in german_region_names THEN "german"
       ELSE IF region.name \in japan_region_names THEN "japan"
       ELSE IF subcontinent.continent.has
               /\ subcontinent.continent.value.name = "africa" THEN "africa"
       ELSE subcontinent.name

\* two assignments to outputs have the same key
OutputOverwritten ==
    LET writes == output_writes(collection.items)
    IN \E i, j \in 1..Len(writes) : i # j /\ writes[i].key = writes[j].key

\* C29: every country whose capital has a region with a sub-continent is in
\* exactly one table of exactly one output: under 'german' for the two
\* German regions, under 'japan' for the Japan region, under 'africa' for an
\* African sub-continent, under the name of its sub-continent otherwise; a
\* country without such a capital is in no output; no assignment to outputs
\* replaces an earlier one.
C29_EveryCountryInOneOutput ==
    RegionTablesGenerated =>
        /\ \A i \in 1..Len(collection.items) :
              LET c == collection.items[i] IN
              IF has_region_and_sub_continent(c)
              THEN /\ Cardinality(TablesOf(c)) = 1
                   /\ \A place \in TablesOf(c) : place[1] = OutputOf(c)
              ELSE TablesOf(c) = {}
        /\ ~OutputOverwritten

(* ------------- properties: rank inference and the existence note -------- *)

\* the number of provinces infer_country_rank_key counts for the country
CountedProvinces == Cardinality(collect_provinces(country))

\* C30: for every country for which infer_country_rank_key counts at least
\* one province, get_country_notes emits no 'Does not exist in 1337' note,
\* whatever the cores of the country conquered by others are.
C30_CountedCountryExists ==
    (pc = "get_country_notes" /\ CountedProvinces >= 1) => ExistencePositions = {}

\* a country with a counted province whose cores are conquered by others
C30_Witness ==
    /\ NotesReturned
    /\ CountedProvinces >= 1
    /\ "our_cores_conquered_by_others" \in DOMAIN country.attrs
    /\ Len(country.attrs["our_cores_conquered_by_others"].items) > 0
    /\ ExistencePositions = {}

====
